---- MODULE Spec2Model ----
(***************************************************************************)
(* GroundTruth AI Surveyor: the offline store (StorageService), the sync   *)
(* coordinator (SyncService), the verification recorder                    *)
(* (VerificationService) and the survey session (SurveyScreen / App).      *)
(*                                                                         *)
(* Every asynchronous method is cut at its awaits: one action per          *)
(* synchronous stretch of code, so that other handlers interleave exactly  *)
(* where the JavaScript event loop lets them.                              *)
(***************************************************************************)
EXTENDS Integers, Sequences, FiniteSets, TLC

VARIABLES
    \* StorageService
    isInitialized,            \* this.isInitialized
    useLocalStorageFallback,  \* this.useLocalStorageFallback (undefined = FALSE)
    surveyPackets,            \* the IndexedDB object store 'surveyPackets': a set of records
    localStorage,             \* window.localStorage: a set of [key, value] entries
    markCall,                 \* a direct markPacketAsSynced call awaiting its getData
    \* SyncService
    isOnline,                 \* this.isOnline
    isSyncing,                \* this.isSyncing
    syncProgress,             \* this.syncProgress, as the fraction [num, den] (times 100 in the code)
    run,                      \* per caller: the locals of its syncAllPendingData invocation
    \* VerificationService
    currentSurvey,            \* this.currentSurvey (0 = null)
    verificationData,         \* this.verificationData
    locationWatcher,          \* this.locationWatcher: TRUE while the interval is set
    isTracking,               \* this.isTracking
    timers,                   \* the pending simulateGetLocation timers, in the order they were set
    ticks,                    \* the sampler ticks fired since the last startSurvey
    \* App and SurveyScreen
    currentScreen,            \* App: currentScreen
    appSurvey,                \* App: currentSurvey, by its id (0 = null)
    session,                  \* the number of the SurveyScreen instance mounted last
    currentQuestionIndex,     \* SurveyScreen state (0-based, as in the code)
    answers,
    notes,
    isLoading,
    screenVerification,       \* SurveyScreen: verificationData is set
    \* history of the current session
    logged,                   \* the questionIds logAnswer was called with since startSurvey
    serial,                   \* no recorder call of the session began while another was pending
    failedSave,               \* a save of this SurveyScreen instance has failed
    \* observation: the last operation and what it returned or threw
    lastOp

storageVars == <<isInitialized, useLocalStorageFallback, surveyPackets, localStorage, markCall>>
syncVars == <<isOnline, isSyncing, syncProgress, run>>
recorderVars == <<currentSurvey, verificationData, locationWatcher, isTracking, timers, ticks>>
screenVars == <<currentScreen, appSurvey, session, currentQuestionIndex, answers, notes, isLoading,
                screenVerification>>
historyVars == <<logged, serial, failedSave>>
sessionVars == <<recorderVars, screenVars, historyVars>>
vars == <<storageVars, syncVars, sessionVars, lastOp>>

-----------------------------------------------------------------------------
(* Inputs *)

\* survey.id of the dashboard's surveys
SurveyIds == {1, 2}

\* the callers that may invoke syncAllPendingData concurrently
Callers == {1, 2}

\* question.id of the survey questions
QuestionIds == 1..6

\* An answer value: undefined (no answer), a string, or a media object.
\* "audio" is {type:'audio', blob: Blob, url}; "photo" is {type:'photo', url}.
AnswerValues == {"undefined", "", "x", "y", "audio", "photo"}

NoAnswers == [q \in QuestionIds |-> "undefined"]

-----------------------------------------------------------------------------
(* JSON: what JSON.stringify followed by JSON.parse makes of a value.  A   *)
(* Blob has no enumerable properties: it is written as {}.                 *)

ToJSONAnswer(a) == IF a = "audio" THEN "audioEmptyBlob" ELSE a

ToJSON(packet) ==
    [packet EXCEPT !.answers = [q \in DOMAIN packet.answers |-> ToJSONAnswer(packet.answers[q])]]

\* `survey_${surveyId}`
StorageKey(surveyId) == <<"survey_", surveyId>>

\* key.startsWith('survey_')
IsSurveyKey(key) == key[1] = "survey_"

-----------------------------------------------------------------------------
(* The two backing media *)

\* IDBObjectStore.put on a store with keyPath 'surveyId': insert or replace
putDataAppend(store, data) == store \cup {data}

putData(store, data) == {r \in store : r.surveyId # data.surveyId} \cup {data}

\* IDBObjectStore.get
getData(store, key) == {r \in store : r.surveyId = key}

\* localStorage.setItem
setItem(ls, key, value) == {e \in ls : e.key # key} \cup {[key |-> key, value |-> value]}

\* localStorage.getItem: the entries under the key (none: null)
getItem(ls, key) == {e.value : e \in {x \in ls : x.key = key}}

\* The packets the store holds, whichever medium backs it
StoredPackets ==
    IF useLocalStorageFallback
    THEN {e.value : e \in {x \in localStorage : IsSurveyKey(x.key)}}
    ELSE surveyPackets

PacketsOf(surveyId) == {p \in StoredPackets : p.surveyId = surveyId}

-----------------------------------------------------------------------------
(* StorageService.initialize / ensureInitialized *)

\* What opening the database comes to: the database opens ("idb"), IndexedDB is
\* missing or the open request errors ("fallback"), or the open throws ("throw").
InitOutcomes == {"idb", "fallback", "throw"}

\* ensureInitialized: TRUE when the service is initialized afterwards
InitOk(o) == isInitialized \/ o # "throw"

FallbackAfter(o) == IF isInitialized THEN useLocalStorageFallback ELSE o = "fallback"

initialize(o) ==
    /\ UNCHANGED sessionVars
    /\ ~isInitialized
    /\ isInitialized' = (o # "throw")
    /\ useLocalStorageFallback' = (o = "fallback")
    /\ lastOp' = [op |-> "initialize", outcome |-> IF o = "throw" THEN "threw" ELSE "ok"]
    /\ UNCHANGED <<surveyPackets, localStorage, markCall, syncVars>>

EnsureInitialized(o) ==
    /\ isInitialized' = InitOk(o)
    /\ useLocalStorageFallback' = FallbackAfter(o)

-----------------------------------------------------------------------------
(* StorageService.saveSurveyPacket *)

\* packetData: the packet with status, syncStatus and createdAt stamped
PacketDataKeepStatus(packet) ==
    [packet EXCEPT !.status = IF packet.status = "undefined" THEN "completed" ELSE packet.status,
                   !.createdAt = "now"]

PacketData(packet) ==
    [packet EXCEPT !.status = IF packet.status = "undefined" THEN "completed" ELSE packet.status,
                   !.syncStatus = "pending",
                   !.createdAt = "now"]

\* the write of packetData to the medium in use
WritePacket(fallback, data) ==
    IF fallback
    THEN /\ localStorage' = setItem(localStorage, StorageKey(data.surveyId), ToJSON(data))
         /\ UNCHANGED surveyPackets
    ELSE /\ surveyPackets' = putData(surveyPackets, data)
         /\ UNCHANGED localStorage

\* o: what initialization comes to if it still has to run; ok: the medium takes the write
SaveOk(o, ok) == InitOk(o) /\ ok

saveSurveyPacket(packet, o, ok) ==
    /\ EnsureInitialized(o)
    /\ IF SaveOk(o, ok)
       THEN WritePacket(FallbackAfter(o), PacketData(packet))
       ELSE UNCHANGED <<surveyPackets, localStorage>>

-----------------------------------------------------------------------------
(* StorageService.getSurveyPacketsForSync *)

\* the sequences that list the elements of S, each once
RECURSIVE Orders(_)
Orders(S) ==
    IF S = {} THEN {<<>>}
    ELSE UNION {{<<x>> \o s : s \in Orders(S \ {x})} : x \in S}

\* the sequence listing S by ascending surveyId (an index's getAll is ordered by key)
RECURSIVE BySurveyId(_)
BySurveyId(S) ==
    IF S = {} THEN <<>>
    ELSE LET m == CHOOSE x \in S : \A y \in S : x.surveyId <= y.surveyId
         IN  <<m>> \o BySurveyId(S \ {m})

PendingOf(packets) == {p \in packets : p.syncStatus = "pending"}

\* What the read can return: on a read error, [] ; from localStorage, the pending
\* packets in the order of localStorage.key(i); from the index, by key.
getSurveyPacketsForSync(fallback, ok) ==
    IF ~ok THEN {<<>>}
    ELSE IF fallback
    THEN Orders(PendingOf({e.value : e \in {x \in localStorage : IsSurveyKey(x.key)}}))
    ELSE {BySurveyId(PendingOf(surveyPackets))}

\* a direct call: o as for saveSurveyPacket; ok: the read succeeds
ListPending(o, ok) ==
    /\ UNCHANGED sessionVars
    /\ EnsureInitialized(o)
    /\ UNCHANGED <<surveyPackets, localStorage, markCall, syncVars>>
    /\ IF ~InitOk(o)
       THEN lastOp' = [op |-> "listPending", outcome |-> "threw"]
       ELSE \E packets \in getSurveyPacketsForSync(FallbackAfter(o), ok) :
              lastOp' = [op |-> "listPending", outcome |-> "returned",
                         result |-> packets, readFailed |-> ~ok]

-----------------------------------------------------------------------------
(* StorageService.markPacketAsSynced *)

MarkedToggle(packet) ==
    [packet EXCEPT !.syncStatus = IF @ = "synced" THEN "pending" ELSE "synced",
                   !.syncedAt = "now"]

Marked(packet) == [packet EXCEPT !.syncStatus = "synced", !.syncedAt = "now"]

\* the fallback branch: read, change and write back in one synchronous stretch
MarkedItem(ls, surveyId) ==
    LET found == getItem(ls, StorageKey(surveyId))
    IN  IF found # {}
        THEN setItem(ls, StorageKey(surveyId), ToJSON(Marked(CHOOSE p \in found : TRUE)))
        ELSE ls

MarkInLocalStorage(surveyId, ok) ==
    /\ localStorage' = IF ok THEN MarkedItem(localStorage, surveyId) ELSE localStorage
    /\ UNCHANGED surveyPackets

\* the write that ends the IndexedDB branch
MarkPut(packet, ok) ==
    /\ surveyPackets' = IF ok THEN putData(surveyPackets, Marked(packet)) ELSE surveyPackets
    /\ UNCHANGED localStorage

\* a direct call: o as for saveSurveyPacket; ok: the read (getData, or the parse of
\* the stored text) succeeds and, in the fallback, the write is taken
markPacketAsSynced(surveyId, o, ok) ==
    /\ UNCHANGED sessionVars
    /\ markCall.pc = "idle"
    /\ EnsureInitialized(o)
    /\ UNCHANGED syncVars
    /\ IF ~InitOk(o)
       THEN /\ lastOp' = [op |-> "markSynced", surveyId |-> surveyId, outcome |-> "threw"]
            /\ UNCHANGED <<surveyPackets, localStorage, markCall>>
       ELSE IF FallbackAfter(o)
       THEN /\ MarkInLocalStorage(surveyId, ok)
            /\ lastOp' = [op |-> "markSynced", surveyId |-> surveyId, outcome |-> "returned"]
            /\ UNCHANGED markCall
       ELSE IF ok /\ getData(surveyPackets, surveyId) # {}
       THEN /\ markCall' = [pc |-> "put", got |-> getData(surveyPackets, surveyId)]
            /\ lastOp' = [op |-> "markSynced", surveyId |-> surveyId, outcome |-> "awaiting"]
            /\ UNCHANGED <<surveyPackets, localStorage>>
       ELSE /\ lastOp' = [op |-> "markSynced", surveyId |-> surveyId, outcome |-> "returned"]
            /\ UNCHANGED <<surveyPackets, localStorage, markCall>>

\* the direct call resumes after getData and writes the packet it read
markPacketAsSyncedPut(ok) ==
    /\ UNCHANGED sessionVars
    /\ markCall.pc = "put"
    /\ LET packet == CHOOSE p \in markCall.got : TRUE
       IN  /\ MarkPut(packet, ok)
           /\ lastOp' = [op |-> "markSynced", surveyId |-> packet.surveyId, outcome |-> "returned"]
    /\ markCall' = [pc |-> "idle", got |-> {}]
    /\ UNCHANGED <<isInitialized, useLocalStorageFallback, syncVars>>

-----------------------------------------------------------------------------
(* StorageService.clearAllData *)

clearAllData(o, ok) ==
    /\ UNCHANGED sessionVars
    /\ EnsureInitialized(o)
    /\ UNCHANGED <<markCall, syncVars>>
    /\ IF InitOk(o) /\ ok
       THEN /\ IF FallbackAfter(o)
               THEN /\ localStorage' = {e \in localStorage : ~IsSurveyKey(e.key)}
                    /\ UNCHANGED surveyPackets
               ELSE /\ surveyPackets' = {}
                    /\ UNCHANGED localStorage
            /\ lastOp' = [op |-> "clearAll", outcome |-> "ok"]
       ELSE /\ lastOp' = [op |-> "clearAll", outcome |-> "threw"]
            /\ UNCHANGED <<surveyPackets, localStorage>>

-----------------------------------------------------------------------------
(* StorageService.getStorageStats *)

\* stats: the counts over the packets read
getStorageStats(packets) ==
    [totalSurveys |-> Cardinality(packets),
     completedSurveys |-> Cardinality(packets),
     pendingSync |-> Cardinality({p \in packets : p.syncStatus = "pending"}),
     syncedSurveys |-> Cardinality({p \in packets : p.syncStatus = "synced"})]

-----------------------------------------------------------------------------
(* The packets handed to saveSurveyPacket through the service's interface *)

SampleAnswers ==
    { [NoAnswers EXCEPT ![1] = "x"],
      [NoAnswers EXCEPT ![1] = "x", ![4] = "audio"] }

SampleVerification ==
    [surveyId |-> 0, startTime |-> "t", endTime |-> "t", startLocation |-> "loc",
     endLocation |-> "loc", answerTimestamps |-> <<>>, locationHistory |-> <<>>,
     verificationHash |-> "undefined"]

InputPackets ==
    [surveyId : SurveyIds, answers : SampleAnswers, notes : {""},
     verification : {SampleVerification}, status : {"completed"},
     syncStatus : {"undefined"}, createdAt : {"undefined"}, syncedAt : {"undefined"}]

\* a packet that already carries a createdAt, as one read back from the store does
ResavedPackets == {[p EXCEPT !.createdAt = "earlier"] : p \in InputPackets}

Save(packet, o, ok) ==
    /\ UNCHANGED sessionVars
    /\ saveSurveyPacket(packet, o, ok)
    /\ lastOp' = IF SaveOk(o, ok)
                 THEN [op |-> "save", surveyId |-> packet.surveyId, outcome |-> "ok",
                       packet |-> packet, returned |-> PacketData(packet)]
                 ELSE [op |-> "save", surveyId |-> packet.surveyId, outcome |-> "threw"]
    /\ UNCHANGED <<markCall, syncVars>>

-----------------------------------------------------------------------------
(* SyncService *)

IdleRun ==
    [pc |-> "idle", pendingPackets |-> <<>>, i |-> 0, syncedCount |-> 0,
     failedCount |-> 0, results |-> <<>>, got |-> {}]

ProgressZero == [num |-> 0, den |-> 1]

\* window 'online' / 'offline' events
Online ==
    /\ UNCHANGED sessionVars
    /\ ~isOnline
    /\ isOnline' = TRUE
    /\ lastOp' = [op |-> "online"]
    /\ UNCHANGED <<storageVars, isSyncing, syncProgress, run>>

Offline ==
    /\ UNCHANGED sessionVars
    /\ isOnline
    /\ isOnline' = FALSE
    /\ lastOp' = [op |-> "offline"]
    /\ UNCHANGED <<storageVars, isSyncing, syncProgress, run>>

\* syncAllPendingData up to its first await: the two checks, then the flags
OfflineCheckNever == FALSE

OfflineCheck == ~isOnline

BusyCheckNever == FALSE

BusyCheck == isSyncing

SyncCall(c) ==
    /\ UNCHANGED sessionVars
    /\ run[c].pc = "idle"
    /\ UNCHANGED <<storageVars, isOnline>>
    /\ IF OfflineCheck
       THEN /\ lastOp' = [op |-> "syncAll", caller |-> c, outcome |-> "offline"]
            /\ UNCHANGED <<isSyncing, syncProgress, run>>
       ELSE IF BusyCheck
       THEN /\ lastOp' = [op |-> "syncAll", caller |-> c, outcome |-> "busy"]
            /\ UNCHANGED <<isSyncing, syncProgress, run>>
       ELSE /\ isSyncing' = TRUE
            /\ syncProgress' = ProgressZero
            /\ run' = [run EXCEPT ![c] = [IdleRun EXCEPT !.pc = "reading"]]
            /\ lastOp' = [op |-> "syncAll", caller |-> c, outcome |-> "accepted"]

\* the finally block and the return (or the rethrow) that it follows
FinallyKeepFlags(c, outcome) ==
    /\ UNCHANGED <<isSyncing, syncProgress>>
    /\ run' = [run EXCEPT ![c] = IdleRun]
    /\ lastOp' = outcome

Finally(c, outcome) ==
    /\ isSyncing' = FALSE
    /\ syncProgress' = ProgressZero
    /\ run' = [run EXCEPT ![c] = IdleRun]
    /\ lastOp' = outcome

Returned(c, result, read) ==
    [op |-> "syncAll", caller |-> c, outcome |-> "returned", result |-> result, read |-> read]

\* the return when no packet was read; readFailed: getSurveyPacketsForSync caught
\* an error and returned []
ReturnedNone(c, readFailed) ==
    [op |-> "syncAll", caller |-> c, outcome |-> "returned",
     result |-> [success |-> TRUE, synced |-> 0, failed |-> 0], read |-> <<>>,
     readFailed |-> readFailed]

\* the head of the loop for packet i (1-based here): progress, then the upload starts
LoopHead(c, r, i) ==
    /\ syncProgress' = [num |-> i, den |-> Len(r.pendingPackets)]
    /\ run' = [run EXCEPT ![c] = [r EXCEPT !.i = i, !.pc = "uploading", !.got = {}]]
    /\ lastOp' = [op |-> "syncAll", caller |-> c, outcome |-> "uploading"]
    /\ UNCHANGED isSyncing

\* after packet r.i is done (r holds the counts and results with it): the next
\* packet, or the result
LoopNext(c, r) ==
    IF r.i < Len(r.pendingPackets)
    THEN LoopHead(c, r, r.i + 1)
    ELSE Finally(c, Returned(c, [success |-> r.failedCount = 0, synced |-> r.syncedCount,
                                 failed |-> r.failedCount, total |-> Len(r.pendingPackets),
                                 results |-> r.results],
                             r.pendingPackets))

\* the run resumes with the pending packets
SyncRead(c, o, ok) ==
    /\ UNCHANGED sessionVars
    /\ run[c].pc = "reading"
    /\ EnsureInitialized(o)
    /\ UNCHANGED <<surveyPackets, localStorage, markCall, isOnline>>
    /\ IF ~InitOk(o)
       THEN Finally(c, [op |-> "syncAll", caller |-> c, outcome |-> "threw"])
       ELSE \E pendingPackets \in getSurveyPacketsForSync(FallbackAfter(o), ok) :
              IF Len(pendingPackets) = 0
              THEN Finally(c, ReturnedNone(c, ~ok))
              ELSE LoopHead(c, [run[c] EXCEPT !.pendingPackets = pendingPackets], 1)

\* a success entered at the front of results
SucceededFirst(r) ==
    [r EXCEPT !.syncedCount = @ + 1,
              !.results = <<[success |-> TRUE, surveyId |-> r.pendingPackets[r.i].surveyId]>> \o @]

Succeeded(r) ==
    [r EXCEPT !.syncedCount = @ + 1,
              !.results = Append(@, [success |-> TRUE, surveyId |-> r.pendingPackets[r.i].surveyId])]

Failed(r) ==
    [r EXCEPT !.failedCount = @ + 1,
              !.results = Append(@, [success |-> FALSE, surveyId |-> r.pendingPackets[r.i].surveyId])]

\* the upload of packet i ends: uploaded says how.  On success markPacketAsSynced
\* is called; ok is as for markPacketAsSynced.
SyncUpload(c, uploaded, ok) ==
    /\ UNCHANGED sessionVars
    /\ run[c].pc = "uploading"
    /\ UNCHANGED <<isInitialized, useLocalStorageFallback, markCall, isOnline>>
    /\ LET r == run[c]
           surveyId == r.pendingPackets[r.i].surveyId
       IN  IF ~uploaded
           THEN /\ LoopNext(c, Failed(r))
                /\ UNCHANGED <<surveyPackets, localStorage>>
           ELSE IF useLocalStorageFallback
           THEN /\ MarkInLocalStorage(surveyId, ok)
                /\ LoopNext(c, Succeeded(r))
           ELSE IF ok /\ getData(surveyPackets, surveyId) # {}
           THEN /\ run' = [run EXCEPT ![c] = [r EXCEPT !.pc = "marking",
                                                       !.got = getData(surveyPackets, surveyId)]]
                /\ lastOp' = [op |-> "syncAll", caller |-> c, outcome |-> "marking"]
                /\ UNCHANGED <<surveyPackets, localStorage, isSyncing, syncProgress>>
           ELSE /\ LoopNext(c, Succeeded(r))
                /\ UNCHANGED <<surveyPackets, localStorage>>

\* markPacketAsSynced resumes after getData and writes; then the loop goes on
SyncMark(c, ok) ==
    /\ UNCHANGED sessionVars
    /\ run[c].pc = "marking"
    /\ UNCHANGED <<isInitialized, useLocalStorageFallback, markCall, isOnline>>
    /\ MarkPut(CHOOSE p \in run[c].got : TRUE, ok)
    /\ LoopNext(c, Succeeded(run[c]))

-----------------------------------------------------------------------------
(* VerificationService *)

\* the most simulateGetLocation timers pending at once
MaxTimers == 2

\* the most sampler ticks in one session
MaxTicks == 1

\* the constructor's verificationData
NoData ==
    [surveyId |-> 0, startTime |-> "null", endTime |-> "null", startLocation |-> "null",
     endLocation |-> "null", answerTimestamps |-> <<>>, locationHistory |-> <<>>,
     verificationHash |-> "undefined"]

\* the object startSurvey assigns to verificationData
FreshData(surveyId) == [NoData EXCEPT !.surveyId = surveyId, !.startTime = "t"]

getAnswerType(answer) ==
    IF answer \in {"", "x", "y"} THEN "text"
    ELSE IF answer = "audio" THEN "audio"
    ELSE IF answer = "photo" THEN "photo"
    ELSE "unknown"

\* the size of the recorded audio Blob
BlobSize == 9

getAnswerLength(answer) ==
    IF answer = "" THEN 0
    ELSE IF answer \in {"x", "y"} THEN 1
    ELSE IF answer = "audio" THEN BlobSize
    ELSE 0

\* the decimal digits of n, as character codes
RECURSIVE Digits(_)
Digits(n) == IF n < 10 THEN <<48 + n>> ELSE Digits(n \div 10) \o <<48 + (n % 10)>>

\* JSON.stringify of a time or a location, as character codes: null, a quoted
\* time, or an object
Stringify(v) ==
    IF v = "null" THEN <<110, 117, 108, 108>>
    ELSE IF v = "t" THEN <<34, 116, 34>>
    ELSE IF v = "u" THEN <<34, 117, 34>>
    ELSE <<123, 108, 125>>

\* the values generateVerificationHash reads from verificationData
HashedValues(data) ==
    <<data.surveyId, data.startTime, data.endTime, data.startLocation, data.endLocation,
      Len(data.answerTimestamps), Len(data.locationHistory)>>

\* dataString: the seven values, separated by commas
DataString(values) ==
    Digits(values[1]) \o <<44>> \o Stringify(values[2]) \o <<44>>
       \o Stringify(values[3]) \o <<44>> \o Stringify(values[4]) \o <<44>>
       \o Stringify(values[5]) \o <<44>> \o Digits(values[6])
       \o <<44>> \o Digits(values[7])

\* a dataString that also carries the length of each logged answer
DataStringWithAnswers(data) ==
    DataString(HashedValues(data)) \o [i \in 1..Len(data.answerTimestamps) |->
                                          48 + data.answerTimestamps[i].answerLength]

\* half of a 32-bit word
Half == 65536

\* hash = ((hash << 5) - hash) + char; hash = hash & hash: 31 * hash + char in
\* 32 bits, the word kept as <<high half, low half>>
HashStep(hash, char) ==
    CHOOSE next \in {<<(31 * h[1] + ((31 * h[2] + char) \div Half)) % Half,
                       (31 * h[2] + char) % Half>> : h \in {hash}} : TRUE

\* the loop from character i on
RECURSIVE HashLoop(_, _, _)
HashLoop(str, i, hash) ==
    IF i > Len(str) THEN hash ELSE HashLoop(str, i + 1, HashStep(hash, str[i]))

\* Math.abs of the signed 32-bit word
Abs32(hash) ==
    CHOOSE abs \in {IF h[1] < Half \div 2 THEN h
                    ELSE IF h[2] = 0 THEN <<Half - h[1], 0>>
                    ELSE <<Half - 1 - h[1], Half - h[2]>> : h \in {hash}} : TRUE

\* the loop over the whole of a string
SimpleHash(dataString) ==
    CHOOSE hash \in {HashLoop(str, 1, <<0, 0>>) : str \in {dataString}} : TRUE

\* a hash over the answers' lengths too
generateVerificationHashOfAnswers(data) ==
    Abs32(SimpleHash(DataStringWithAnswers(data)))

\* generateVerificationHash: the 32-bit digest of the seven values, whose
\* hexadecimal digits are the two halves
generateVerificationHash(data) == Abs32(SimpleHash(DataString(HashedValues(data))))

\* getVerificationStatus().isActive
isActive == currentSurvey # 0

getVerificationStatus ==
    [isActive |-> isActive,
     surveyId |-> currentSurvey,
     startTime |-> verificationData.startTime,
     answerCount |-> Len(verificationData.answerTimestamps),
     locationCount |-> Len(verificationData.locationHistory),
     isTracking |-> isTracking]

\* the first n elements: Array.prototype.slice(0, n)
SliceFirst(seq, n) ==
    IF Len(seq) <= n THEN seq ELSE SubSeq(seq, 1, n)

\* the last n elements: Array.prototype.slice(-n)
SliceLast(seq, n) ==
    IF Len(seq) <= n THEN seq ELSE SubSeq(seq, Len(seq) - n + 1, Len(seq))

\* the capacity of locationHistory
HistoryCapacity == 10

startLocationTracking ==
    IF isTracking
    THEN UNCHANGED <<isTracking, locationWatcher>>
    ELSE isTracking' = TRUE /\ locationWatcher' = TRUE

\* a stop that switches the sampler's flags over
stopLocationTrackingFlip ==
    locationWatcher' = ~locationWatcher /\ isTracking' = ~isTracking

stopLocationTracking ==
    IF locationWatcher
    THEN locationWatcher' = FALSE /\ isTracking' = FALSE
    ELSE UNCHANGED <<isTracking, locationWatcher>>

\* startSurvey up to its await
startSurvey(surveyId, n) ==
    /\ currentSurvey' = surveyId
    /\ verificationData' = FreshData(surveyId)
    /\ timers' = Append(timers, [kind |-> "start", session |-> n])
    /\ ticks' = 0
    /\ UNCHANGED <<locationWatcher, isTracking>>

\* logAnswer's guard
LogsWithoutSurvey == FALSE

NoActiveSurveyToLog == currentSurvey = 0

\* logAnswer up to its await
logAnswer(questionId, answer) ==
    IF NoActiveSurveyToLog
    THEN UNCHANGED recorderVars
    ELSE /\ timers' = Append(timers, [kind |-> "log", questionId |-> questionId,
                                      answerType |-> getAnswerType(answer),
                                      answerLength |-> getAnswerLength(answer)])
         /\ UNCHANGED <<currentSurvey, verificationData, locationWatcher, isTracking, ticks>>

\* completeSurvey's guard
NoActiveSurveyNever == FALSE

NoActiveSurveyToComplete == currentSurvey = 0

\* completeSurvey up to its await; t is what the caller does with the result
completeSurvey(t) ==
    IF NoActiveSurveyToComplete
    THEN UNCHANGED recorderVars
    ELSE /\ stopLocationTracking
         /\ timers' = Append(timers, t)
         /\ UNCHANGED <<currentSurvey, verificationData, ticks>>

\* what completeSurvey makes of verificationData after its await
Completed(data) ==
    LET ended == [data EXCEPT !.endLocation = "loc", !.endTime = "t"]
    IN  [ended EXCEPT !.verificationHash = generateVerificationHash(ended)]

PendingKinds(kinds) == {i \in 1..Len(timers) : timers[i].kind \in kinds}

-----------------------------------------------------------------------------
(* SurveyScreen and App *)

\* the surveys opened from the dashboard
SessionSurveys == {1}

\* the most SurveyScreen instances in a run of the application
MaxSessions == 2

\* the most handleAnswerChange calls in one SurveyScreen instance
MaxAnswers == 4

questions ==
    << [id |-> 1, type |-> "multiple_choice", required |-> TRUE],
       [id |-> 2, type |-> "text", required |-> TRUE],
       [id |-> 3, type |-> "multiple_choice", required |-> TRUE],
       [id |-> 4, type |-> "audio", required |-> FALSE],
       [id |-> 5, type |-> "photo", required |-> FALSE],
       [id |-> 6, type |-> "text", required |-> TRUE] >>

currentQuestion == questions[currentQuestionIndex + 1]

\* what the input of a question of this type hands to handleAnswerChange
ValuesFor(type) ==
    IF type = "multiple_choice" THEN {"x"}
    ELSE IF type = "text" THEN {"", "x"}
    ELSE IF type = "audio" THEN {"audio"}
    ELSE {"photo"}

\* a canProceed that takes any answer that is there
answeredIfDefined(question, answer) == ~question.required \/ answer # "undefined"

\* canProceed() for a current question and the answer stored under its id
answered(question, answer) ==
    IF ~question.required THEN TRUE
    ELSE answer # "undefined" /\ answer # "" /\ answer # "null"

\* a canProceed that lets every question pass
canProceedAlways == TRUE

canProceed == answered(currentQuestion, answers[currentQuestion.id])

\* the state of a SurveyScreen that has just been mounted (or is not mounted)
FreshScreen ==
    /\ currentQuestionIndex' = 0
    /\ answers' = NoAnswers
    /\ notes' = ""
    /\ isLoading' = FALSE
    /\ screenVerification' = FALSE

Mounted(n) == currentScreen = "survey" /\ session = n

handleLogin ==
    /\ UNCHANGED syncVars
    /\ currentScreen = "login"
    /\ currentScreen' = "dashboard"
    /\ lastOp' = [op |-> "handleLogin"]
    /\ UNCHANGED <<appSurvey, session, currentQuestionIndex, answers, notes, isLoading,
                   screenVerification, recorderVars, historyVars, storageVars>>

\* the surveyor's call of completeSurvey when a session is left: the result is dropped
AbandonCall == [kind |-> "complete", origin |-> "app", session |-> session]

handleLogout ==
    /\ UNCHANGED syncVars
    /\ currentScreen = "dashboard"
    /\ isActive => Len(timers) < MaxTimers
    /\ currentScreen' = "login"
    /\ appSurvey' = 0
    /\ IF isActive
       THEN /\ completeSurvey(AbandonCall)
            /\ serial' = (serial /\ PendingKinds({"log", "complete"}) = {})
       ELSE UNCHANGED <<recorderVars, serial>>
    /\ lastOp' = [op |-> "handleLogout"]
    /\ UNCHANGED <<session, currentQuestionIndex, answers, notes, isLoading, screenVerification,
                   logged, failedSave, storageVars>>

\* App.handleStartSurvey, and the effect of the SurveyScreen it mounts
handleStartSurvey(survey) ==
    /\ UNCHANGED syncVars
    /\ currentScreen = "dashboard"
    /\ session < MaxSessions
    /\ Len(timers) < MaxTimers
    /\ appSurvey' = survey
    /\ currentScreen' = "survey"
    /\ session' = session + 1
    /\ FreshScreen
    /\ startSurvey(survey, session + 1)
    /\ logged' = <<>>
    /\ serial' = (PendingKinds({"start", "log", "complete"}) = {})
    /\ failedSave' = FALSE
    /\ lastOp' = [op |-> "handleStartSurvey", surveyId |-> survey]
    /\ UNCHANGED storageVars

\* a setAnswers that keeps an answer once given
setAnswersOnce(prev, id, value) == IF prev[id] = "undefined" THEN [prev EXCEPT ![id] = value] ELSE prev

\* setAnswers(prev => ({...prev, [id]: value}))
setAnswers(prev, id, value) == [prev EXCEPT ![id] = value]

handleAnswerChange(value) ==
    /\ UNCHANGED syncVars
    /\ currentScreen = "survey"
    /\ Len(logged) < MaxAnswers
    /\ Len(timers) < MaxTimers
    /\ answers' = setAnswers(answers, currentQuestion.id, value)
    /\ logAnswer(currentQuestion.id, value)
    /\ IF NoActiveSurveyToLog
       THEN UNCHANGED <<logged, serial>>
       ELSE /\ logged' = Append(logged, currentQuestion.id)
            /\ serial' = (serial /\ PendingKinds({"log", "complete"}) = {})
    /\ lastOp' = [op |-> "handleAnswerChange", questionId |-> currentQuestion.id,
                  value |-> value, replaced |-> answers[currentQuestion.id]]
    /\ UNCHANGED <<currentScreen, appSurvey, session, currentQuestionIndex, notes, isLoading,
                   screenVerification, failedSave, storageVars>>

lastIndex == Len(questions) - 1

\* the index handleNext leaves
nextIndexUnclamped(i) == i + 1

nextIndex(i) == IF i < Len(questions) - 1 THEN i + 1 ELSE i

\* the index handlePrevious leaves
previousIndex(i) == IF i > 0 THEN i - 1 ELSE i

\* the Next button is disabled while canProceed() is false; a call at the last
\* question, where the button is not shown, is let through to the handler's
\* own test
handleNext ==
    /\ UNCHANGED syncVars
    /\ currentScreen = "survey"
    /\ currentQuestionIndex < Len(questions) - 1 => canProceed
    /\ currentQuestionIndex' = nextIndex(currentQuestionIndex)
    /\ notes' = IF currentQuestionIndex < Len(questions) - 1 THEN "" ELSE notes
    /\ lastOp' = [op |-> "handleNext"]
    /\ UNCHANGED <<currentScreen, appSurvey, session, answers, isLoading, screenVerification,
                   recorderVars, historyVars, storageVars>>

\* a call at the first question, where the button is disabled, is let through
\* to the handler's own test
handlePrevious ==
    /\ UNCHANGED syncVars
    /\ currentScreen = "survey"
    /\ currentQuestionIndex' = previousIndex(currentQuestionIndex)
    /\ notes' = IF currentQuestionIndex > 0 THEN "" ELSE notes
    /\ lastOp' = [op |-> "handlePrevious"]
    /\ UNCHANGED <<currentScreen, appSurvey, session, answers, isLoading, screenVerification,
                   recorderVars, historyVars, storageVars>>

\* handleComplete up to the await of completeSurvey; when completeSurvey throws,
\* the catch and the finally follow at once
handleComplete ==
    /\ UNCHANGED syncVars
    /\ currentScreen = "survey"
    /\ currentQuestionIndex = Len(questions) - 1
    /\ canProceed
    /\ ~isLoading
    /\ Len(timers) < MaxTimers
    /\ completeSurvey([kind |-> "complete", origin |-> "screen", session |-> session,
                       surveyId |-> appSurvey, answers |-> answers, notes |-> notes])
    /\ IF NoActiveSurveyToComplete
       THEN /\ lastOp' = [op |-> "handleComplete", outcome |-> "threw", alert |-> TRUE]
            /\ UNCHANGED <<isLoading, serial>>
       ELSE /\ lastOp' = [op |-> "handleComplete", outcome |-> "awaiting", alert |-> FALSE]
            /\ isLoading' = TRUE
            /\ serial' = (serial /\ PendingKinds({"log", "complete"}) = {})
    /\ UNCHANGED <<currentScreen, appSurvey, session, currentQuestionIndex, answers, notes,
                   screenVerification, logged, failedSave, storageVars>>

\* confirmExit: what window.confirm returns
handleBackToDashboard(confirmExit) ==
    /\ UNCHANGED syncVars
    /\ currentScreen = "survey"
    /\ (appSurvey # 0 /\ isActive) => Len(timers) < MaxTimers
    /\ UNCHANGED <<session, logged, failedSave, storageVars>>
    /\ IF appSurvey # 0 /\ isActive /\ ~confirmExit
       THEN /\ lastOp' = [op |-> "handleBackToDashboard", left |-> FALSE]
            /\ UNCHANGED <<currentScreen, appSurvey, currentQuestionIndex, answers, notes,
                           isLoading, screenVerification, recorderVars, serial>>
       ELSE /\ IF appSurvey # 0 /\ isActive
               THEN /\ completeSurvey(AbandonCall)
                    /\ serial' = (serial /\ PendingKinds({"log", "complete"}) = {})
               ELSE UNCHANGED <<recorderVars, serial>>
            /\ appSurvey' = 0
            /\ currentScreen' = "dashboard"
            /\ FreshScreen
            /\ lastOp' = [op |-> "handleBackToDashboard", left |-> TRUE]

-----------------------------------------------------------------------------
(* Timers *)

\* the interval fires: the sampler's callback runs up to its await
SamplerTick(limit) ==
    /\ UNCHANGED syncVars
    /\ locationWatcher
    /\ ticks < limit
    /\ PendingKinds({"tick"}) = {}
    /\ Len(timers) < MaxTimers
    /\ timers' = Append(timers, [kind |-> "tick", sample |-> ticks + 1])
    /\ ticks' = ticks + 1
    /\ lastOp' = [op |-> "tick"]
    /\ UNCHANGED <<currentSurvey, verificationData, locationWatcher, isTracking, screenVars,
                   historyVars, storageVars>>

Tick == SamplerTick(MaxTicks)

\* startSurvey resumes with the location; the SurveyScreen that called it, if
\* still mounted, keeps the record
ResolveStart ==
    /\ UNCHANGED syncVars
    /\ timers # <<>>
    /\ Head(timers).kind = "start"
    /\ timers' = Tail(timers)
    /\ verificationData' = [verificationData EXCEPT !.startLocation = "loc"]
    /\ startLocationTracking
    /\ screenVerification' = (screenVerification \/ Mounted(Head(timers).session))
    /\ lastOp' = [op |-> "startSurvey", outcome |-> "returned"]
    /\ UNCHANGED <<currentSurvey, ticks, currentScreen, appSurvey, session, currentQuestionIndex,
                   answers, notes, isLoading, historyVars, storageVars>>

\* Array.prototype.unshift
unshift(logs, entry) == <<entry>> \o logs

\* answerTimestamps.push(answerLog)
push(logs, entry) == Append(logs, entry)

\* logAnswer resumes with the location
ResolveLog ==
    /\ UNCHANGED syncVars
    /\ timers # <<>>
    /\ Head(timers).kind = "log"
    /\ timers' = Tail(timers)
    /\ verificationData' =
          [verificationData EXCEPT !.answerTimestamps =
              push(@, [questionId |-> Head(timers).questionId, location |-> "loc",
                         answerType |-> Head(timers).answerType,
                         answerLength |-> Head(timers).answerLength])]
    /\ lastOp' = [op |-> "logAnswer", outcome |-> "returned"]
    /\ UNCHANGED <<currentSurvey, locationWatcher, isTracking, ticks, screenVars, historyVars,
                   storageVars>>

\* the sampler's callback resumes with the location
ResolveTick ==
    /\ UNCHANGED syncVars
    /\ timers # <<>>
    /\ Head(timers).kind = "tick"
    /\ timers' = Tail(timers)
    /\ verificationData' =
          [verificationData EXCEPT !.locationHistory =
              SliceLast(Append(@, Head(timers).sample), HistoryCapacity)]
    /\ lastOp' = [op |-> "tick", outcome |-> "returned"]
    /\ UNCHANGED <<currentSurvey, locationWatcher, isTracking, ticks, screenVars, historyVars,
                   storageVars>>

\* the packet handleComplete assembles
SurveyPacket(t, verification) ==
    [surveyId |-> t.surveyId, answers |-> t.answers, notes |-> t.notes,
     verification |-> verification, status |-> "completed",
     syncStatus |-> "undefined", createdAt |-> "undefined", syncedAt |-> "undefined"]

\* completeSurvey resumes with the location and returns the record.  Called by
\* handleComplete, the packet goes to App.handleCompleteSurvey, which saves it
\* (o, ok as for saveSurveyPacket).
ResolveComplete(o, ok) ==
    /\ UNCHANGED syncVars
    /\ timers # <<>>
    /\ Head(timers).kind = "complete"
    /\ LET t == Head(timers)
           record == Completed(verificationData)
       IN  /\ timers' = Tail(timers)
           /\ verificationData' = record
           /\ currentSurvey' = 0
           /\ UNCHANGED <<locationWatcher, isTracking, ticks, session, logged, serial,
                          markCall>>
           /\ IF t.origin = "app"
              THEN /\ lastOp' = [op |-> "completeSurvey", outcome |-> "returned",
                                 origin |-> "app", saved |-> "none"]
                   /\ UNCHANGED <<currentScreen, appSurvey, currentQuestionIndex, answers, notes,
                                  isLoading, screenVerification, failedSave, isInitialized,
                                  useLocalStorageFallback, surveyPackets, localStorage>>
              ELSE /\ saveSurveyPacket(SurveyPacket(t, record), o, ok)
                   /\ IF SaveOk(o, ok)
                      THEN /\ appSurvey' = 0
                           /\ currentScreen' = "dashboard"
                           /\ FreshScreen
                           /\ UNCHANGED failedSave
                           /\ lastOp' = [op |-> "completeSurvey", outcome |-> "returned",
                                         origin |-> "screen", saved |-> "ok",
                                         surveyId |-> t.surveyId, alert |-> FALSE]
                      ELSE /\ isLoading' = IF Mounted(t.session) THEN FALSE ELSE isLoading
                           /\ failedSave' = (failedSave \/ Mounted(t.session))
                           /\ UNCHANGED <<currentScreen, appSurvey, currentQuestionIndex, answers,
                                          notes, screenVerification>>
                           /\ lastOp' = [op |-> "completeSurvey", outcome |-> "returned",
                                         origin |-> "screen", saved |-> "failed",
                                         surveyId |-> t.surveyId, alert |-> TRUE]

-----------------------------------------------------------------------------
(* The store and the sync coordinator, driven through their interfaces *)

Init ==
    /\ isInitialized = FALSE
    /\ useLocalStorageFallback = FALSE
    /\ surveyPackets = {}
    /\ localStorage = {}
    /\ markCall = [pc |-> "idle", got |-> {}]
    /\ isOnline \in BOOLEAN
    /\ isSyncing = FALSE
    /\ syncProgress = ProgressZero
    /\ run = [c \in Callers |-> IdleRun]
    /\ currentSurvey = 0
    /\ verificationData = NoData
    /\ locationWatcher = FALSE
    /\ isTracking = FALSE
    /\ timers = <<>>
    /\ ticks = 0
    /\ currentScreen = "login"
    /\ appSurvey = 0
    /\ session = 0
    /\ currentQuestionIndex = 0
    /\ answers = NoAnswers
    /\ notes = ""
    /\ isLoading = FALSE
    /\ screenVerification = FALSE
    /\ logged = <<>>
    /\ serial = TRUE
    /\ failedSave = FALSE
    /\ lastOp = [op |-> "none"]

InFlight == {c \in Callers : run[c].pc # "idle"}

RunStep(c) ==
    \/ \E o \in InitOutcomes, ok \in BOOLEAN : SyncRead(c, o, ok)
    \/ \E uploaded \in BOOLEAN, ok \in BOOLEAN : SyncUpload(c, uploaded, ok)
    \/ \E ok \in BOOLEAN : SyncMark(c, ok)

Next ==
    \/ \E o \in InitOutcomes : initialize(o)
    \/ \E packet \in InputPackets, o \in InitOutcomes, ok \in BOOLEAN : Save(packet, o, ok)
    \/ \E o \in InitOutcomes, ok \in BOOLEAN : clearAllData(o, ok)
    \/ Online
    \/ Offline
    \/ \E c \in Callers : SyncCall(c)
    \/ \E c \in Callers : RunStep(c)

Spec == Init /\ [][Next]_vars

\* A timer fires and a database request completes: a run that can take a step
\* takes it.
FairSpec == Spec /\ \A c \in Callers : WF_vars(RunStep(c))

\* The same, with the store's other callers waiting until no run is in flight
SeqNext ==
    \/ InFlight = {} /\ \E o \in InitOutcomes : initialize(o)
    \/ InFlight = {} /\ \E packet \in InputPackets, o \in InitOutcomes, ok \in BOOLEAN :
                            Save(packet, o, ok)
    \/ InFlight = {} /\ \E o \in InitOutcomes, ok \in BOOLEAN : clearAllData(o, ok)
    \/ Online
    \/ Offline
    \/ \E c \in Callers : SyncCall(c)
    \/ \E c \in Callers : RunStep(c)

SeqSpec == Init /\ [][SeqNext]_vars

\* The store driven through its whole interface, with the coordinator's runs
\* requested by one caller
SoleCaller == CHOOSE c \in Callers : TRUE

FullNext ==
    \/ \E o \in InitOutcomes : initialize(o)
    \/ \E packet \in InputPackets, o \in InitOutcomes, ok \in BOOLEAN : Save(packet, o, ok)
    \/ \E surveyId \in SurveyIds, o \in InitOutcomes, ok \in BOOLEAN :
          markPacketAsSynced(surveyId, o, ok)
    \/ \E ok \in BOOLEAN : markPacketAsSyncedPut(ok)
    \/ \E o \in InitOutcomes, ok \in BOOLEAN : clearAllData(o, ok)
    \/ Online
    \/ Offline
    \/ SyncCall(SoleCaller)
    \/ RunStep(SoleCaller)

FullSpec == Init /\ [][FullNext]_vars

\* The store alone, driven through its interface
StoreNext ==
    \/ \E o \in InitOutcomes : initialize(o)
    \/ \E packet \in InputPackets \cup ResavedPackets, o \in InitOutcomes, ok \in BOOLEAN :
          Save(packet, o, ok)
    \/ \E surveyId \in SurveyIds, o \in InitOutcomes, ok \in BOOLEAN :
          markPacketAsSynced(surveyId, o, ok)
    \/ \E ok \in BOOLEAN : markPacketAsSyncedPut(ok)
    \/ \E o \in InitOutcomes, ok \in BOOLEAN : clearAllData(o, ok)
    \/ \E o \in InitOutcomes, ok \in BOOLEAN : ListPending(o, ok)

StoreSpec == Init /\ [][StoreNext]_vars

\* The application: the surveyor's screens, the recorder and its timers, and
\* the store they save into
SurveyNext ==
    \/ \E o \in InitOutcomes : initialize(o)
    \/ handleLogin
    \/ handleLogout
    \/ \E survey \in SessionSurveys : handleStartSurvey(survey)
    \/ \E value \in ValuesFor(currentQuestion.type) : handleAnswerChange(value)
    \/ handleNext
    \/ handlePrevious
    \/ handleComplete
    \/ \E confirmExit \in BOOLEAN : handleBackToDashboard(confirmExit)
    \/ Tick
    \/ ResolveStart
    \/ ResolveLog
    \/ ResolveTick
    \/ \E o \in InitOutcomes, ok \in BOOLEAN : ResolveComplete(o, ok)

SurveySpec == Init /\ [][SurveyNext]_vars

\* a pending simulateGetLocation timeout fires and the call awaiting it resumes
TimerFires ==
    \/ ResolveStart
    \/ ResolveLog
    \/ ResolveTick
    \/ \E o \in InitOutcomes, ok \in BOOLEAN : ResolveComplete(o, ok)

\* The application with its timers firing: setTimeout callbacks are run
FairSurveySpec == SurveySpec /\ WF_vars(TimerFires)

-----------------------------------------------------------------------------
(* The recorder alone, called through its interface *)

\* the most sampler ticks between two startSurvey calls
MaxSamples == 12

\* the most answer logs in one record
MaxLogs == 2

\* the answers given to logAnswer
LoggedAnswers == {"x", "audio"}

StartSurveyCall(surveyId) ==
    /\ Len(timers) < MaxTimers
    /\ startSurvey(surveyId, 0)
    /\ lastOp' = [op |-> "startSurveyCall", surveyId |-> surveyId]
    /\ UNCHANGED <<screenVars, historyVars, storageVars, syncVars>>

LogAnswerCall(questionId, answer) ==
    /\ Len(timers) < MaxTimers
    /\ Len(verificationData.answerTimestamps) + Cardinality(PendingKinds({"log"})) < MaxLogs
    /\ logAnswer(questionId, answer)
    /\ lastOp' = [op |-> "logAnswerCall", questionId |-> questionId,
                  outcome |-> IF NoActiveSurveyToLog THEN "ignored" ELSE "awaiting"]
    /\ UNCHANGED <<screenVars, historyVars, storageVars, syncVars>>

CompleteSurveyCall ==
    /\ Len(timers) < MaxTimers
    /\ completeSurvey(AbandonCall)
    /\ lastOp' = [op |-> "completeSurveyCall",
                  outcome |-> IF NoActiveSurveyToComplete THEN "threw" ELSE "awaiting"]
    /\ UNCHANGED <<screenVars, historyVars, storageVars, syncVars>>

\* a direct call of stopLocationTracking
StopLocationTrackingCall ==
    /\ stopLocationTracking
    /\ lastOp' = [op |-> "stopLocationTrackingCall", wasRunning |-> locationWatcher,
                  again |-> (lastOp.op = "stopLocationTrackingCall")]
    /\ UNCHANGED <<currentSurvey, verificationData, timers, ticks, screenVars, historyVars,
                   storageVars, syncVars>>

RecorderNext ==
    \/ \E surveyId \in SessionSurveys : StartSurveyCall(surveyId)
    \/ \E questionId \in {1, 4}, answer \in LoggedAnswers : LogAnswerCall(questionId, answer)
    \/ CompleteSurveyCall
    \/ SamplerTick(MaxSamples)
    \/ ResolveStart
    \/ ResolveLog
    \/ ResolveTick
    \/ \E o \in InitOutcomes, ok \in BOOLEAN : ResolveComplete(o, ok)

RecorderSpec == Init /\ [][RecorderNext]_vars

\* The recorder with its sampler stopped from outside as well
SamplerNext ==
    \/ \E surveyId \in SessionSurveys : StartSurveyCall(surveyId)
    \/ StopLocationTrackingCall
    \/ CompleteSurveyCall
    \/ Tick
    \/ ResolveStart
    \/ ResolveTick
    \/ \E o \in InitOutcomes, ok \in BOOLEAN : ResolveComplete(o, ok)

SamplerSpec == Init /\ [][SamplerNext]_vars

-----------------------------------------------------------------------------
(* What the claims speak of *)

\* the syncStatus values stored under a surveyId
StatusOf(surveyId) == {p.syncStatus : p \in PacketsOf(surveyId)}

\* a packet as the medium in use holds it
AsStored(packet) == IF useLocalStorageFallback THEN ToJSON(packet) ELSE packet

\* what a survey packet carries besides its bookkeeping fields
Contents(packet) ==
    [surveyId |-> packet.surveyId, answers |-> packet.answers, notes |-> packet.notes,
     verification |-> packet.verification]

SaveDone == lastOp.op = "save" /\ lastOp.outcome = "ok"

SyncReturned == lastOp.op = "syncAll" /\ lastOp.outcome = "returned"

\* a run that found packets has returned: its result has total and results
SyncReturnedSome == SyncReturned /\ Len(lastOp.read) > 0

Successes(results) == {i \in 1..Len(results) : results[i].success}

Failures(results) == {i \in 1..Len(results) : ~results[i].success}

-----------------------------------------------------------------------------
(* C1 *)

\* C1, as stated: once the packet of a surveyId is synced, no step of save,
\* markSynced or syncAll makes the packet of that surveyId pending again.
CX_C1_NeverBackToPending ==
    [][\A id \in SurveyIds : "synced" \in StatusOf(id) => "pending" \notin StatusOf(id)']_vars

\* C1, amended: the packet of a surveyId goes from synced to pending only in a
\* successful saveSurveyPacket for that surveyId (which replaces the packet);
\* no step of markPacketAsSynced or of a sync run does it.
T_C1_OnlySaveResetsToPending ==
    [][\A id \in SurveyIds :
          ("synced" \in StatusOf(id) /\ "pending" \in StatusOf(id)')
              => (lastOp'.op = "save" /\ lastOp'.outcome = "ok" /\ lastOp'.surveyId = id)]_vars

\* A direct markPacketAsSynced read the packet when it was synced, and a save
\* has since replaced it with a pending one.
W_C1_SavedOverSynced ==
    /\ markCall.pc = "put"
    /\ SaveDone
    /\ \E p \in markCall.got :
          /\ p.syncStatus = "synced"
          /\ p.surveyId = lastOp.surveyId
          /\ StatusOf(p.surveyId) = {"pending"}

-----------------------------------------------------------------------------
(* C2 *)

-----------------------------------------------------------------------------
(* C3 *)

\* a step that is caller c's call of syncAllPendingData made while another
\* caller's run is in flight
CallDuringRun(c) ==
    /\ run[c].pc = "idle"
    /\ InFlight # {}
    /\ lastOp'.op = "syncAll"
    /\ lastOp'.caller = c

\* a step that is caller c's call made while no run is in flight
CallWhenIdle(c) ==
    /\ InFlight = {}
    /\ lastOp'.op = "syncAll"
    /\ lastOp'.caller = c

StoreAndFlagsUnchanged ==
    UNCHANGED <<isSyncing, syncProgress, run, surveyPackets, localStorage>>

\* C3, as stated: a call made while another run is in flight fails with the busy
\* error.
CX_C3_AlwaysBusyError ==
    [][\A c \in Callers : CallDuringRun(c) => lastOp'.outcome = "busy"]_vars

\* C3, amended: at most one run is in flight; a call made while another run is in
\* flight fails (with the busy error when connectivity is up, with the offline
\* error when it is down) and changes neither isSyncing, progress nor the store;
\* when no run is in flight isSyncing is false, and a call made then with
\* connectivity up is accepted.
T_C3_SingleFlight ==
    /\ [](Cardinality(InFlight) <= 1)
    /\ [](InFlight = {} => ~isSyncing)
    /\ [][\A c \in Callers :
             /\ CallDuringRun(c) =>
                   /\ lastOp'.outcome = IF isOnline THEN "busy" ELSE "offline"
                   /\ StoreAndFlagsUnchanged
             /\ (CallWhenIdle(c) /\ isOnline) => lastOp'.outcome = "accepted"]_vars

\* A call has just failed with the busy error while the other caller's run is
\* uploading.
W_C3_SecondCallBusy ==
    /\ lastOp.op = "syncAll"
    /\ lastOp.outcome = "busy"
    /\ \E c \in InFlight : c # lastOp.caller /\ run[c].pc = "uploading"

-----------------------------------------------------------------------------
(* C4 *)

\* C4: every accepted run ends, and the step that ends it (return or rethrow)
\* leaves isSyncing false and progress 0.
T_C4_RunEndsWithFlagsReset ==
    /\ [][\A c \in Callers :
             (run[c].pc # "idle" /\ run'[c].pc = "idle")
                 => (~isSyncing' /\ syncProgress' = ProgressZero)]_vars
    /\ \A c \in Callers :
          (run[c].pc # "idle") ~> (run[c].pc = "idle" /\ ~isSyncing /\ syncProgress = ProgressZero)

\* A run has returned with one packet synced and one failed, and the flags are
\* reset.
W_C4_PartialFailureEnded ==
    /\ SyncReturnedSome
    /\ lastOp.result.synced = 1
    /\ lastOp.result.failed = 1
    /\ ~isSyncing
    /\ syncProgress = ProgressZero

-----------------------------------------------------------------------------
(* C5 *)

\* C5, as stated (for k >= 1): when every upload of a run succeeded, the run
\* returns synced = k, failed = 0, total = k, and every packet it read is synced
\* in the store.
CX_C5_AllSyncedAtReturn ==
    (SyncReturnedSome /\ Failures(lastOp.result.results) = {}) =>
        /\ lastOp.result.synced = Len(lastOp.read)
        /\ lastOp.result.failed = 0
        /\ lastOp.result.total = Len(lastOp.read)
        /\ \A i \in 1..Len(lastOp.read) : StatusOf(lastOp.read[i].surveyId) = {"synced"}

\* What does hold of such a run: the counts.
CountsWhenAllUploaded ==
    (SyncReturnedSome /\ Failures(lastOp.result.results) = {}) =>
        /\ lastOp.result.synced = Len(lastOp.read)
        /\ lastOp.result.failed = 0
        /\ lastOp.result.total = Len(lastOp.read)

-----------------------------------------------------------------------------
(* C6 *)

\* C6, as stated: a run whose upload of a packet failed records a failed result
\* for it, goes on with the other packets, and returns the counts; the failed
\* packets are still pending in the store and the others are synced.
CX_C6_PartialFailure ==
    SyncReturnedSome =>
        LET res == lastOp.result
            idAt(i) == lastOp.read[i].surveyId
        IN  /\ Len(res.results) = Len(lastOp.read)
            /\ res.total = Len(lastOp.read)
            /\ res.failed = Cardinality(Failures(res.results))
            /\ res.synced = Cardinality(Successes(res.results))
            /\ \A i \in 1..Len(res.results) :
                  /\ res.results[i].surveyId = idAt(i)
                  /\ StatusOf(idAt(i)) = {IF res.results[i].success THEN "synced" ELSE "pending"}

\* What does hold, with no other caller of the store during the run: the results
\* and counts, and the failed packets left pending.
FailedPacketsStayPending ==
    SyncReturnedSome =>
        LET res == lastOp.result
            idAt(i) == lastOp.read[i].surveyId
        IN  /\ Len(res.results) = Len(lastOp.read)
            /\ res.total = Len(lastOp.read)
            /\ res.failed = Cardinality(Failures(res.results))
            /\ res.synced = Cardinality(Successes(res.results))
            /\ \A i \in 1..Len(res.results) :
                  /\ res.results[i].surveyId = idAt(i)
                  /\ ~res.results[i].success => StatusOf(idAt(i)) = {"pending"}

-----------------------------------------------------------------------------
(* Survey sessions *)

\* the question ids of a list of answer logs, in its order
QuestionIdsOf(logs) == [i \in 1..Len(logs) |-> logs[i].questionId]

\* completeSurvey has returned to handleComplete and the save has come back
SessionSaved ==
    lastOp.op = "completeSurvey" /\ lastOp.origin = "screen" /\ lastOp.saved = "ok"

\* C7: when a session whose recorder calls did not overlap (serial) has been
\* completed and saved, the store holds one packet for its survey, with
\* syncStatus pending and one answer log per logAnswer call, in call order.
T_C7_SessionPacket ==
    (SessionSaved /\ serial) =>
        /\ Cardinality(PacketsOf(lastOp.surveyId)) = 1
        /\ \A p \in PacketsOf(lastOp.surveyId) :
              /\ p.syncStatus = "pending"
              /\ QuestionIdsOf(p.verification.answerTimestamps) = logged

\* C7: a session with four answers logged one after the other has been saved
W_C7_FourAnswersSaved == SessionSaved /\ serial /\ Len(logged) = 4

\* C8: once a completeSurvey call has returned no sampler is running, and the
\* recorder is never idle with a sampler scheduled.
CX_C8_NoSamplerWhenIdle ==
    /\ (lastOp.op = "completeSurvey" => ~isTracking)
    /\ (currentSurvey = 0 => ~locationWatcher)

\* C9: after a failed save, pressing Complete Survey again on the same screen
\* gets past the recorder and on to the save.
CX_C9_RetryReachesSave ==
    (lastOp.op = "handleComplete" /\ failedSave) => lastOp.outcome # "threw"

\* a failed save raises the alert and leaves answers, notes and the question
\* index of the screen as they were
SaveFailureReported ==
    [][(lastOp'.op = "completeSurvey" /\ lastOp'.origin = "screen" /\ lastOp'.saved = "failed"
        /\ lastOp' # lastOp)
       => (lastOp'.alert /\ UNCHANGED <<answers, notes, currentQuestionIndex>>)]_vars

\* C10: a completeSurvey call made while no survey is active throws, and leaves
\* the recorder (active survey, record, sampler, timers) and the stored packets
\* as they were.
T_C10_CompleteWhenIdleThrows ==
    [][(lastOp'.op = "handleComplete" /\ currentSurvey = 0)
       => (/\ lastOp'.outcome = "threw"
           /\ UNCHANGED <<recorderVars, surveyPackets, localStorage>>)]_vars

\* C10: completeSurvey has been called with no active survey
W_C10_CalledWhenIdle ==
    lastOp.op = "handleComplete" /\ lastOp.outcome = "threw" /\ currentSurvey = 0

-----------------------------------------------------------------------------
(* The recorder's record *)

\* a step in which the sampler's callback resumes with its sample
SampleArrives ==
    /\ timers # <<>>
    /\ Head(timers).kind = "tick"
    /\ timers' = Tail(timers)

\* C11: locationHistory never holds more than 10 samples; a sample that arrives
\* is put at the end, and when 10 are held already the oldest is dropped and the
\* others keep their order.
T_C11_HistoryCapped ==
    /\ [](Len(verificationData.locationHistory) <= 10)
    /\ [][SampleArrives =>
             LET h == verificationData.locationHistory
                 x == Head(timers).sample
             IN  verificationData'.locationHistory =
                    IF Len(h) < 10 THEN Append(h, x) ELSE Append(Tail(h), x)]_vars

\* C11: the 11th sample of a session has arrived: samples 2 to 11 are held
W_C11_EleventhSample ==
    /\ lastOp.op = "tick"
    /\ Len(verificationData.locationHistory) = 10
    /\ verificationData.locationHistory[1] = 2
    /\ verificationData.locationHistory[10] = 11

\* a step in which a logAnswer call resumes with its location
LogArrives ==
    /\ timers # <<>>
    /\ Head(timers).kind = "log"
    /\ timers' = Tail(timers)

\* a step that leaves a survey active: the recorder is active before and after
\* it, and it is not a startSurvey call beginning another record
WithinSession ==
    /\ currentSurvey # 0
    /\ currentSurvey' # 0
    /\ lastOp'.op \notin {"startSurveyCall", "handleStartSurvey"}

\* C12: while a survey is active, a logAnswer call that resumes puts exactly one
\* entry, for its question, at the end of answerTimestamps, and every other step
\* (a logAnswer call, a sampler tick, a sample arriving, a completeSurvey call)
\* leaves answerTimestamps as it was.
T_C12_AnswerLogOnlyGrows ==
    [][WithinSession =>
          LET a == verificationData.answerTimestamps
              b == verificationData'.answerTimestamps
          IN  IF LogArrives
              THEN /\ Len(b) = Len(a) + 1
                   /\ SubSeq(b, 1, Len(a)) = a
                   /\ b[Len(b)].questionId = Head(timers).questionId
              ELSE b = a]_vars

\* C12: in an active survey the second answer log has arrived, for another
\* question than the first, with samples taken in between
W_C12_SecondLogArrived ==
    /\ lastOp.op = "logAnswer"
    /\ currentSurvey # 0
    /\ Len(verificationData.answerTimestamps) = 2
    /\ verificationData.answerTimestamps[1].questionId = 1
    /\ verificationData.answerTimestamps[2].questionId = 4
    /\ Len(verificationData.locationHistory) > 0

-----------------------------------------------------------------------------
(* Leaving a survey *)

\* the surveyor has just left a survey (Back confirmed, or logout) with the
\* recorder active
LeftWhileActive ==
    /\ \/ lastOp.op = "handleBackToDashboard" /\ lastOp.left
       \/ lastOp.op = "handleLogout"
    /\ currentSurvey # 0

\* C13: once the surveyor has left a survey with the recorder active, the
\* recorder becomes idle with no sampler running.
CX_C13_LeavingReleasesRecorder ==
    LeftWhileActive ~> (currentSurvey = 0 /\ ~isTracking /\ ~locationWatcher)

\* What does hold: the recorder becomes idle.
LeavingEndsActive == LeftWhileActive ~> (currentSurvey = 0)

-----------------------------------------------------------------------------
(* The recorder after completeSurvey *)

\* a completeSurvey call has just returned its record
CompleteReturned == lastOp.op = "completeSurvey" /\ lastOp.outcome = "returned"

\* C14: when completeSurvey has returned, the status shows no active survey and
\* nothing of the finished record: no startTime, no answers, no samples.
CX_C14_RecordNotRetained ==
    CompleteReturned =>
        /\ ~getVerificationStatus.isActive
        /\ getVerificationStatus.surveyId = 0
        /\ getVerificationStatus.startTime = "null"
        /\ getVerificationStatus.answerCount = 0
        /\ getVerificationStatus.locationCount = 0

\* What does hold: the status shows no active survey.
IdleWhenCompleteReturned ==
    CompleteReturned =>
        /\ ~getVerificationStatus.isActive
        /\ getVerificationStatus.surveyId = 0

-----------------------------------------------------------------------------
(* syncAllPendingData: the offline check and the read *)

\* a step in which caller c calls syncAllPendingData
SyncCalledBy(c) ==
    /\ run[c].pc = "idle"
    /\ lastOp'.op = "syncAll"
    /\ lastOp'.caller = c

\* C15: a syncAllPendingData call made while isOnline is false fails with the
\* offline error; the step starts no run (so nothing is read or marked) and
\* leaves isSyncing, progress and the store as they were.
T_C15_OfflineCallRejected ==
    [][\A c \in Callers :
          (SyncCalledBy(c) /\ ~isOnline) =>
              /\ lastOp'.outcome = "offline"
              /\ UNCHANGED <<isSyncing, syncProgress, run, storageVars>>]_vars

\* C15: a call has failed with the offline error while pending packets are
\* stored and no run is in flight
W_C15_OfflineWithPending ==
    /\ lastOp.op = "syncAll"
    /\ lastOp.outcome = "offline"
    /\ PendingOf(StoredPackets) # {}
    /\ InFlight = {}
    /\ ~isSyncing

\* C16: a run whose read of the pending packets failed does not return a
\* result: it ends with the error.
CX_C16_ReadFailureAborts ==
    (SyncReturned /\ Len(lastOp.read) = 0) => ~lastOp.readFailed

-----------------------------------------------------------------------------
(* StorageService.initialize *)

\* C17: initialize reports success whatever opening the database comes to.
CX_C17_InitializeNeverFails ==
    lastOp.op = "initialize" => lastOp.outcome = "ok"

\* What does hold: an initialization that fell back to localStorage reports
\* success and leaves the service initialized.
FallbackReportsSuccess ==
    (lastOp.op = "initialize" /\ useLocalStorageFallback) =>
        (lastOp.outcome = "ok" /\ isInitialized)

\* What does hold: once initialized, no later step changes the medium in use.
MediumChosenOnce ==
    [][isInitialized =>
          (isInitialized' /\ useLocalStorageFallback' = useLocalStorageFallback)]_vars

-----------------------------------------------------------------------------
(* The two media side by side: one StorageService on IndexedDB (surveyPackets) *)
(* and one on the localStorage fallback (localStorage), given the same calls,  *)
(* each call finished before the next, no request rejected                     *)

\* the packets under survey_ keys in localStorage
FallbackPackets == {e.value : e \in {x \in localStorage : IsSurveyKey(x.key)}}

TwinFrame == UNCHANGED <<isInitialized, useLocalStorageFallback, markCall, syncVars, sessionVars>>

TwinSave(packet) ==
    /\ surveyPackets' = putData(surveyPackets, PacketData(packet))
    /\ localStorage' = setItem(localStorage, StorageKey(packet.surveyId), ToJSON(PacketData(packet)))
    /\ lastOp' = [op |-> "twinSave", idb |-> {PacketData(packet)}, fallback |-> {PacketData(packet)}]
    /\ TwinFrame

TwinList ==
    /\ \E a \in getSurveyPacketsForSync(FALSE, TRUE), b \in getSurveyPacketsForSync(TRUE, TRUE) :
          lastOp' = [op |-> "twinList", idb |-> {a[i] : i \in 1..Len(a)},
                     fallback |-> {b[i] : i \in 1..Len(b)}, idbOrder |-> a, fallbackOrder |-> b]
    /\ UNCHANGED <<surveyPackets, localStorage>>
    /\ TwinFrame

TwinMark(surveyId) ==
    /\ surveyPackets' =
          IF getData(surveyPackets, surveyId) # {}
          THEN putData(surveyPackets, Marked(CHOOSE p \in getData(surveyPackets, surveyId) : TRUE))
          ELSE surveyPackets
    /\ localStorage' = MarkedItem(localStorage, surveyId)
    /\ lastOp' = [op |-> "twinMark", idb |-> {}, fallback |-> {}]
    /\ TwinFrame

TwinStats ==
    /\ lastOp' = [op |-> "twinStats", idb |-> {getStorageStats(surveyPackets)},
                  fallback |-> {getStorageStats(FallbackPackets)}]
    /\ UNCHANGED <<surveyPackets, localStorage>>
    /\ TwinFrame

TwinClear ==
    /\ surveyPackets' = {}
    /\ localStorage' = {e \in localStorage : ~IsSurveyKey(e.key)}
    /\ lastOp' = [op |-> "twinClear", idb |-> {}, fallback |-> {}]
    /\ TwinFrame

TwinNext ==
    \/ \E packet \in InputPackets : TwinSave(packet)
    \/ TwinList
    \/ \E surveyId \in SurveyIds : TwinMark(surveyId)
    \/ TwinStats
    \/ TwinClear

TwinSpec == Init /\ [][TwinNext]_vars

\* the surveyIds a medium holds, each with its syncStatus
Represented(packets) == {<<p.surveyId, p.syncStatus>> : p \in packets}

TwinCalled == lastOp.op \in {"twinSave", "twinList", "twinMark", "twinStats", "twinClear"}

\* C18: after the same calls the two media hold the same surveyIds with the same
\* syncStatus, and each call returned the same on both (the packets listed are
\* compared as a set, leaving their order aside).
CX_C18_MediaEquivalent ==
    /\ Represented(surveyPackets) = Represented(FallbackPackets)
    /\ TwinCalled => lastOp.idb = lastOp.fallback

\* What does hold: the same surveyIds with the same syncStatus are held and
\* listed, and the counts agree.
SameIdsAndStatus ==
    /\ Represented(surveyPackets) = Represented(FallbackPackets)
    /\ lastOp.op = "twinList" => Represented(lastOp.idb) = Represented(lastOp.fallback)
    /\ lastOp.op = "twinStats" => lastOp.idb = lastOp.fallback

\* What does not hold either: packets are listed in the same order.
SameListOrder ==
    lastOp.op = "twinList" =>
        [i \in 1..Len(lastOp.idbOrder) |-> lastOp.idbOrder[i].surveyId]
            = [i \in 1..Len(lastOp.fallbackOrder) |-> lastOp.fallbackOrder[i].surveyId]

-----------------------------------------------------------------------------
(* C19 *)

\* C19: a save that succeeded stored the packet with syncStatus pending, with
\* the createdAt the packet came with if it had one and the time of the save
\* otherwise, and returned exactly the packet it stored.
CX_C19_SaveKeepsCreatedAt ==
    SaveDone =>
        \E p \in PacketsOf(lastOp.surveyId) :
            /\ p.syncStatus = "pending"
            /\ p.createdAt = IF lastOp.packet.createdAt = "undefined"
                             THEN "now" ELSE lastOp.packet.createdAt
            /\ lastOp.returned = p

\* the same without the part about the result
CX_C19_CreatedAtOnly ==
    SaveDone =>
        \E p \in PacketsOf(lastOp.surveyId) :
            p.createdAt = IF lastOp.packet.createdAt = "undefined"
                          THEN "now" ELSE lastOp.packet.createdAt

\* What does hold: the packet is stored with syncStatus pending and with the
\* time of the save as createdAt whatever it came with, and what is stored is
\* what was returned as the medium keeps it.
SaveStampsNow ==
    SaveDone =>
        \E p \in PacketsOf(lastOp.surveyId) :
            /\ p.syncStatus = "pending"
            /\ p.createdAt = "now"
            /\ AsStored(lastOp.returned) = p

-----------------------------------------------------------------------------
(* C20 *)

\* a step of a direct markPacketAsSynced call
MarkStep == lastOp'.op = "markSynced"

\* between before and after nothing has changed, or the packet of surveyId id
\* has its syncStatus and syncedAt set and nothing else has changed
OnlyMarked(before, after, id) ==
    \/ after = before
    \/ \E p \in before : p.surveyId = id /\ after = (before \ {p}) \cup {Marked(p)}

\* C20: a markSynced call changes nothing in the store but the syncStatus and
\* syncedAt of the packet of its surveyId, changes nothing at all when no packet
\* of that surveyId is stored, and never raises an error.
CX_C20_MarkSyncedFrame ==
    [][MarkStep =>
          /\ lastOp'.outcome # "threw"
          /\ OnlyMarked(surveyPackets, surveyPackets', lastOp'.surveyId)
          /\ OnlyMarked(FallbackPackets, FallbackPackets', lastOp'.surveyId)]_vars

\* the same for calls that are not cut by another call between their read and
\* their write
CX_C20_UndisturbedNeverRaises ==
    [][(MarkStep /\ (markCall.pc = "put" => markCall.got \subseteq surveyPackets)) =>
          /\ lastOp'.outcome # "threw"
          /\ OnlyMarked(surveyPackets, surveyPackets', lastOp'.surveyId)
          /\ OnlyMarked(FallbackPackets, FallbackPackets', lastOp'.surveyId)]_vars

\* the frame alone, for the calls that return
CX_C20_FrameUnlessRaised ==
    [][(MarkStep /\ lastOp'.outcome # "threw") =>
          /\ OnlyMarked(surveyPackets, surveyPackets', lastOp'.surveyId)
          /\ OnlyMarked(FallbackPackets, FallbackPackets', lastOp'.surveyId)]_vars

\* What does hold: a call raises only when the service could not be initialized,
\* and then changes nothing; a call whose packet is still as it read it changes
\* only that packet's syncStatus and syncedAt; in every case the packets of
\* other surveyIds are left alone.
MarkFrameWhenUndisturbed ==
    [][MarkStep =>
          /\ lastOp'.outcome = "threw" =>
                (~isInitialized /\ ~isInitialized' /\ UNCHANGED <<surveyPackets, localStorage>>)
          /\ (markCall.pc = "put" => markCall.got \subseteq surveyPackets) =>
                /\ OnlyMarked(surveyPackets, surveyPackets', lastOp'.surveyId)
                /\ OnlyMarked(FallbackPackets, FallbackPackets', lastOp'.surveyId)
          /\ \A p \in surveyPackets \cup surveyPackets' \cup FallbackPackets \cup FallbackPackets' :
                p.surveyId # lastOp'.surveyId =>
                    /\ p \in surveyPackets <=> p \in surveyPackets'
                    /\ p \in FallbackPackets <=> p \in FallbackPackets']_vars

-----------------------------------------------------------------------------
(* C21 *)

ListStep == lastOp'.op = "listPending"

\* the elements of a sequence
Range(s) == {s[i] : i \in 1..Len(s)}

\* C21: a getSurveyPacketsForSync call always returns; what it returns lists,
\* each once, exactly the stored packets whose syncStatus is pending, or is
\* empty when the read failed; the store is as it was.
CX_C21_ListsPendingNeverFails ==
    [][ListStep =>
          /\ lastOp'.outcome = "returned"
          /\ IF lastOp'.readFailed
             THEN lastOp'.result = <<>>
             ELSE /\ Range(lastOp'.result) = PendingOf(StoredPackets')
                  /\ Len(lastOp'.result) = Cardinality(PendingOf(StoredPackets'))
          /\ UNCHANGED <<surveyPackets, localStorage>>]_vars

\* What does hold: the same for every call that returns, and a call fails only
\* when the service could not be initialized.
ListsPendingWhenInitialized ==
    [][ListStep =>
          /\ UNCHANGED <<surveyPackets, localStorage>>
          /\ IF lastOp'.outcome = "threw"
             THEN ~isInitialized /\ ~isInitialized'
             ELSE IF lastOp'.readFailed
             THEN lastOp'.result = <<>>
             ELSE /\ Range(lastOp'.result) = PendingOf(StoredPackets')
                  /\ Len(lastOp'.result) = Cardinality(PendingOf(StoredPackets'))]_vars

\* a call has listed one pending packet while another stored packet is synced
ListedBesideSynced ==
    /\ lastOp.op = "listPending"
    /\ lastOp.outcome = "returned"
    /\ Len(lastOp.result) = 1
    /\ \E p \in StoredPackets : p.syncStatus = "synced"

-----------------------------------------------------------------------------
(* C22 *)

\* a step that is a call of logAnswer, direct or from handleAnswerChange
LogAnswerCalled == lastOp'.op \in {"logAnswerCall", "handleAnswerChange"}

\* C22: a logAnswer call made while no survey is active changes nothing in the
\* recorder: no entry is added to answerTimestamps, no location is asked for
\* (no timer is set), and currentSurvey, verificationData and the sampler are as
\* they were.
T_C22_LogWhenIdleIsNoOp ==
    [][(LogAnswerCalled /\ currentSurvey = 0) => UNCHANGED recorderVars]_vars

\* logAnswer has been called with no active survey while the record of an
\* earlier session, with an answer logged, is still held
W_C22_IgnoredAfterSession ==
    /\ lastOp.op = "logAnswerCall"
    /\ lastOp.outcome = "ignored"
    /\ currentSurvey = 0
    /\ Len(verificationData.answerTimestamps) > 0

-----------------------------------------------------------------------------
(* C23 *)

\* a step within one mounted survey screen
SameScreen == currentScreen = "survey" /\ currentScreen' = "survey" /\ session' = session

\* C23: the question index stays within 0..lastIndex; handleNext adds one to it
\* except at the last question, where it leaves it; handlePrevious takes one
\* from it except at the first question, where it leaves it; nothing else
\* changes the index of a mounted survey screen.
T_C23_IndexClamped ==
    /\ [](currentQuestionIndex \in 0..lastIndex)
    /\ [][SameScreen =>
             currentQuestionIndex' =
                IF lastOp'.op = "handleNext"
                THEN (IF currentQuestionIndex = lastIndex
                      THEN currentQuestionIndex ELSE currentQuestionIndex + 1)
                ELSE IF lastOp'.op = "handlePrevious"
                THEN (IF currentQuestionIndex = 0
                      THEN currentQuestionIndex ELSE currentQuestionIndex - 1)
                ELSE currentQuestionIndex]_vars

\* handleNext has been called at the last question
W_C23_NextAtLast ==
    /\ lastOp.op = "handleNext"
    /\ currentScreen = "survey"
    /\ currentQuestionIndex = lastIndex

-----------------------------------------------------------------------------
(* C24 *)

\* the timer logAnswer(questionId, value) sets when it asks for the location
LogTimer(questionId, value) ==
    [kind |-> "log", questionId |-> questionId, answerType |-> getAnswerType(value),
     answerLength |-> getAnswerLength(value)]

\* C24: handleAnswerChange(value) stores value under the current question's id
\* in place of what was there, leaves the other answers and the question index
\* as they were, and calls logAnswer(id, value) once: with a survey active one
\* location request for that entry is set, with none the recorder is left
\* alone and the answer is stored all the same.  No other step of a mounted
\* survey screen changes the answers.
T_C24_AnswerStoredAndLogged ==
    [][SameScreen =>
          IF lastOp'.op = "handleAnswerChange"
          THEN LET id == currentQuestion.id
                   value == lastOp'.value
               IN  /\ lastOp'.questionId = id
                   /\ answers'[id] = value
                   /\ \A q \in DOMAIN answers : q # id => answers'[q] = answers[q]
                   /\ DOMAIN answers' = DOMAIN answers
                   /\ currentQuestionIndex' = currentQuestionIndex
                   /\ IF currentSurvey # 0
                      THEN /\ timers' = Append(timers, LogTimer(id, value))
                           /\ UNCHANGED <<currentSurvey, verificationData>>
                      ELSE UNCHANGED recorderVars
          ELSE answers' = answers]_vars

\* an answer has replaced another given earlier to the same question
W_C24_AnswerReplaced ==
    /\ lastOp.op = "handleAnswerChange"
    /\ lastOp.replaced \notin {"undefined", lastOp.value}
    /\ answers[lastOp.questionId] = lastOp.value

\* an answer has been stored while the recorder, with no survey active, logged nothing
AnswerStoredLogIgnored ==
    /\ lastOp.op = "handleAnswerChange"
    /\ currentSurvey = 0
    /\ answers[lastOp.questionId] = lastOp.value

-----------------------------------------------------------------------------
(* C25 *)

\* what can be found under a question's id: an answer value, or null
StoredValues == AnswerValues \cup {"null"}

\* the answer counts as given
Present(answer) == answer \notin {"undefined", "", "null"}

\* C25: canProceed() is true exactly when the current question is not required
\* or the answer stored under its id is there and is neither the empty string
\* nor null: in every state of the survey screen, and for every question with
\* every value an answer can have.
T_C25_CanProceed ==
    /\ canProceed <=> (~currentQuestion.required \/ Present(answers[currentQuestion.id]))
    /\ \A question \in Range(questions), answer \in StoredValues :
          answered(question, answer) <=> (~question.required \/ Present(answer))

\* a required text question whose answer has been emptied again: the screen
\* does not let the surveyor proceed
W_C25_EmptiedAnswer ==
    /\ currentScreen = "survey"
    /\ lastOp.op = "handleAnswerChange"
    /\ currentQuestion.required
    /\ lastOp.replaced = "x"
    /\ answers[currentQuestion.id] = ""
    /\ ~canProceed

-----------------------------------------------------------------------------
(* The verification hash applied to pairs of records *)

LogEntries ==
    { <<>>,
      <<[questionId |-> 1, location |-> "loc", answerType |-> "text", answerLength |-> 1]>>,
      <<[questionId |-> 4, location |-> "loc", answerType |-> "audio", answerLength |-> BlobSize]>> }

\* records as completeSurvey holds them when it calls generateVerificationHash
HashedRecords ==
    [surveyId : SessionSurveys, startTime : {"t"}, endTime : {"t", "u"},
     startLocation : {"loc"}, endLocation : {"loc"},
     answerTimestamps : LogEntries, locationHistory : {<<>>, <<1>>, <<2>>},
     verificationHash : {"undefined"}]

WithHash(data) == [data EXCEPT !.verificationHash = generateVerificationHash(data)]

HashPair(a, b) ==
    /\ lastOp' = [op |-> "hash", a |-> WithHash(a), b |-> WithHash(b)]
    /\ UNCHANGED <<storageVars, syncVars, sessionVars>>

HashNext == \E a, b \in HashedRecords : HashPair(a, b)

HashSpec == Init /\ [][HashNext]_vars

-----------------------------------------------------------------------------
(* C26 *)

\* the seven values of a record
SevenValues(data) ==
    <<data.surveyId, data.startTime, data.endTime, data.startLocation, data.endLocation,
      Len(data.answerTimestamps), Len(data.locationHistory)>>

\* C26: two finalized records that agree on surveyId, startTime, endTime,
\* startLocation, endLocation, the number of answerTimestamps entries and the
\* number of locationHistory entries have the same verificationHash, whatever
\* the rest of them is.
T_C26_HashOfSevenValues ==
    lastOp.op = "hash" =>
        (SevenValues(lastOp.a) = SevenValues(lastOp.b)
            => lastOp.a.verificationHash = lastOp.b.verificationHash)

\* two records that agree on the seven values and differ in the answers logged
W_C26_SameSevenOtherAnswers ==
    /\ lastOp.op = "hash"
    /\ SevenValues(lastOp.a) = SevenValues(lastOp.b)
    /\ lastOp.a.answerTimestamps # lastOp.b.answerTimestamps
    /\ lastOp.a.verificationHash = lastOp.b.verificationHash

\* the hash does tell records apart: some two records have different hashes
HashesDiffer ==
    /\ lastOp.op = "hash"
    /\ lastOp.a.verificationHash # lastOp.b.verificationHash

-----------------------------------------------------------------------------
(* C27 *)

StopCalled == lastOp'.op = "stopLocationTrackingCall"

\* C27: after a stopLocationTracking call no sampler runs; the call adds
\* nothing to locationHistory and changes nothing else in the recorder; a call
\* made with no sampler running, as the second of two calls in a row is,
\* changes nothing at all.
T_C27_StopIdempotent ==
    [][StopCalled =>
          /\ ~locationWatcher' /\ ~isTracking'
          /\ UNCHANGED <<currentSurvey, verificationData, timers, ticks>>
          /\ ~locationWatcher => UNCHANGED recorderVars
          /\ lastOp.op = "stopLocationTrackingCall" => UNCHANGED recorderVars]_vars

\* the second of two calls in a row, in a session whose sampler had run
W_C27_StoppedTwice ==
    /\ lastOp.op = "stopLocationTrackingCall"
    /\ lastOp.again
    /\ ~lastOp.wasRunning
    /\ currentSurvey # 0
    /\ Len(verificationData.locationHistory) > 0

-----------------------------------------------------------------------------
(* C28 *)

\* caller c's run is in its loop
InLoop(c) == run[c].pc \in {"uploading", "marking"}

\* the packets of the run whose processing has ended, uploaded or failed
Finished(c) == Len(run[c].results)

\* C28: while a run is in its loop, the published progress is the number of
\* packets whose processing has ended over the number of packets of the run.
CX_C28_ProgressIsFinishedOverTotal ==
    \A c \in Callers :
        InLoop(c) =>
            syncProgress = [num |-> Finished(c), den |-> Len(run[c].pendingPackets)]

\* What does hold: the progress published in the loop counts the packet being
\* processed as well, so it is one packet ahead of those that have ended, and
\* from one step of a run to the next it never goes down.
ProgressOneAhead ==
    /\ [](\A c \in Callers :
             InLoop(c) =>
                 syncProgress = [num |-> Finished(c) + 1, den |-> Len(run[c].pendingPackets)])
    /\ [][\A c \in Callers :
             (InLoop(c) /\ InLoop(c)') =>
                 /\ syncProgress'.den = syncProgress.den
                 /\ syncProgress'.num >= syncProgress.num]_vars

-----------------------------------------------------------------------------
(* C29 *)

\* the surveyIds of a sequence of packets or of results, in order
IdsOf(s) == [k \in 1..Len(s) |-> s[k].surveyId]

\* C29: a run processes its packets one at a time in the order it read them:
\* while packet i is uploaded or marked, the packets before it and no others
\* have their result, in that order; the run goes from packet i to packet i+1
\* only, and only with the result of packet i entered; the results returned
\* list the packets in the order read.
T_C29_OneAtATimeInOrder ==
    /\ [](\A c \in Callers :
             InLoop(c) =>
                 /\ run[c].i \in 1..Len(run[c].pendingPackets)
                 /\ Len(run[c].results) = run[c].i - 1
                 /\ IdsOf(run[c].results) = IdsOf(SubSeq(run[c].pendingPackets, 1, run[c].i - 1)))
    /\ [](SyncReturnedSome => IdsOf(lastOp.result.results) = IdsOf(lastOp.read))
    /\ [][\A c \in Callers :
             (InLoop(c) /\ InLoop(c)' /\ run'[c].i # run[c].i) =>
                 /\ run'[c].i = run[c].i + 1
                 /\ run'[c].pc = "uploading"
                 /\ Len(run'[c].results) = Len(run[c].results) + 1
                 /\ run'[c].pendingPackets = run[c].pendingPackets]_vars

\* a run of two packets has returned, the first failed and the second uploaded
W_C29_FailedThenUploaded ==
    /\ SyncReturnedSome
    /\ Len(lastOp.read) = 2
    /\ ~lastOp.result.results[1].success
    /\ lastOp.result.results[2].success

-----------------------------------------------------------------------------
(* C30 *)

\* the results of caller c's run after a step: those of the run, or those
\* returned when the step ends it
ResultsAfter(c) == IF run'[c].pc = "idle" THEN lastOp'.result.results ELSE run'[c].results

\* a step of caller c's run in which the upload of a packet ends with success
\* or the packet is marked synced
UploadsOrMarks(c) ==
    /\ InLoop(c)
    /\ lastOp'.op = "syncAll"
    /\ lastOp'.caller = c
    /\ \/ run'[c].pc = "marking"
       \/ /\ Len(ResultsAfter(c)) = Len(run[c].results) + 1
          /\ ResultsAfter(c)[Len(ResultsAfter(c))].success

\* C30: no packet is uploaded or marked synced while isOnline is false, also
\* when the connection is lost after the run has begun.
CX_C30_NothingSyncedOffline ==
    [][\A c \in Callers : UploadsOrMarks(c) => isOnline]_vars

\* What does hold: a run begins only while isOnline is true.
RunBeginsOnline ==
    [][\A c \in Callers :
          (SyncCalledBy(c) /\ lastOp'.outcome = "accepted") => isOnline]_vars

\* a packet has been marked synced by a run while isOnline is false
MarkedWhileOffline ==
    /\ ~isOnline
    /\ lastOp.op = "syncAll"
    /\ lastOp.outcome = "returned"
    /\ lastOp.result.synced > 0
    /\ \E p \in StoredPackets : p.syncStatus = "synced"

-----------------------------------------------------------------------------
(* C31 *)

\* the result names the packets the run read, one entry for each, in their order
OneEntryPerPacket(results, read) ==
    /\ Len(results) = Len(read)
    /\ \A i \in 1..Len(read) : results[i].surveyId = read[i].surveyId

\* C31, as stated: every result syncAll returns has success exactly when failed
\* is 0, synced + failed = total, total the number of packets the run read
\* (0 when it read none) and one entry of results for each packet.
CX_C31_ResultSelfConsistent ==
    SyncReturned =>
        /\ {"total", "results"} \subseteq DOMAIN lastOp.result
        /\ lastOp.result.success <=> lastOp.result.failed = 0
        /\ lastOp.result.synced + lastOp.result.failed = lastOp.result.total
        /\ lastOp.result.total = Len(lastOp.read)
        /\ OneEntryPerPacket(lastOp.result.results, lastOp.read)

\* The result of a run that read at least one packet is self-consistent.
ResultConsistentWhenSome ==
    SyncReturnedSome =>
        /\ lastOp.result.success <=> lastOp.result.failed = 0
        /\ lastOp.result.synced + lastOp.result.failed = lastOp.result.total
        /\ lastOp.result.synced = Cardinality(Successes(lastOp.result.results))
        /\ lastOp.result.total = Len(lastOp.read)
        /\ OneEntryPerPacket(lastOp.result.results, lastOp.read)

\* The result of a run that read no packet has neither total nor results.
ResultOfNoneLacksTotal ==
    SyncReturned /\ Len(lastOp.read) = 0 =>
        DOMAIN lastOp.result = {"success", "synced", "failed"}

-----------------------------------------------------------------------------
(* C32 *)

\* the snapshot returned from the catch block
ZeroStats == [totalSurveys |-> 0, completedSurveys |-> 0, pendingSync |-> 0, syncedSurveys |-> 0]

\* the counts of the medium in use, or the zeroed snapshot when the read fails
StatsOf(fallback, ok) ==
    IF ~ok THEN ZeroStats
    ELSE getStorageStats(IF fallback THEN FallbackPackets ELSE surveyPackets)

\* a direct call of getStorageStats: o as for saveSurveyPacket; ok: the read succeeds
Stats(o, ok) ==
    /\ UNCHANGED sessionVars
    /\ EnsureInitialized(o)
    /\ UNCHANGED <<surveyPackets, localStorage, markCall, syncVars>>
    /\ IF ~InitOk(o)
       THEN lastOp' = [op |-> "stats", outcome |-> "threw"]
       ELSE lastOp' = [op |-> "stats", outcome |-> "returned",
                       result |-> StatsOf(FallbackAfter(o), ok), readFailed |-> ~ok]

\* the store driven through its interface, getStorageStats included
StatsNext ==
    \/ StoreNext
    \/ \E o \in InitOutcomes, ok \in BOOLEAN : Stats(o, ok)

StatsSpec == Init /\ [][StatsNext]_vars

StatsStep == lastOp'.op = "stats"

\* the counts of the packets stored
StoredCounts(packets) ==
    [totalSurveys |-> Cardinality(packets),
     pendingSync |-> Cardinality(PendingOf(packets)),
     syncedSurveys |-> Cardinality({p \in packets : p.syncStatus = "synced"})]

Counts(stats) ==
    [totalSurveys |-> stats.totalSurveys, pendingSync |-> stats.pendingSync,
     syncedSurveys |-> stats.syncedSurveys]

\* every stored packet is pending or synced
PendingOrSynced == \A p \in surveyPackets \cup FallbackPackets : p.syncStatus \in {"pending", "synced"}

\* C32, as stated: a getStorageStats call always returns and leaves the store
\* as it was; it returns the number of stored packets, of pending and of synced
\* ones, with total = pending + synced, or all counts zero when the read failed.
CX_C32_StatsNeverFails ==
    [][StatsStep =>
          /\ lastOp'.outcome = "returned"
          /\ UNCHANGED <<surveyPackets, localStorage>>
          /\ PendingOrSynced'
          /\ IF lastOp'.readFailed
             THEN Counts(lastOp'.result) = Counts(ZeroStats)
             ELSE /\ Counts(lastOp'.result) = StoredCounts(StoredPackets')
                  /\ lastOp'.result.totalSurveys =
                        lastOp'.result.pendingSync + lastOp'.result.syncedSurveys]_vars

\* What does hold: the same for every call that returns, and a call fails only
\* when the service could not be initialized.
StatsWhenInitialized ==
    [][StatsStep =>
          /\ UNCHANGED <<surveyPackets, localStorage>>
          /\ PendingOrSynced'
          /\ IF lastOp'.outcome = "threw"
             THEN ~isInitialized /\ ~isInitialized'
             ELSE IF lastOp'.readFailed
             THEN Counts(lastOp'.result) = Counts(ZeroStats)
             ELSE /\ Counts(lastOp'.result) = StoredCounts(StoredPackets')
                  /\ lastOp'.result.totalSurveys =
                        lastOp'.result.pendingSync + lastOp'.result.syncedSurveys]_vars

\* a call has counted one pending and one synced packet
CountedPendingAndSynced ==
    /\ lastOp.op = "stats"
    /\ lastOp.outcome = "returned"
    /\ lastOp.result.totalSurveys = 2
    /\ lastOp.result.pendingSync = 1
    /\ lastOp.result.syncedSurveys = 1

-----------------------------------------------------------------------------
(* C33 *)
(* simulateGetLocation never rejects; a device's location request can, and   *)
(* logAnswer has a catch block for it.  Here the sample awaited by logAnswer  *)
(* may be rejected.                                                           *)

\* the entry logged with a location all the same
answerLogWithLocation(t) ==
    [questionId |-> t.questionId, location |-> "loc", answerType |-> t.answerType,
     answerLength |-> t.answerLength]

\* the entry the catch block pushes
answerLogWithoutLocation(t) ==
    [questionId |-> t.questionId, location |-> "null", answerType |-> t.answerType,
     answerLength |-> t.answerLength]

\* logAnswer resumes with the rejection of its location sample: the catch block
RejectLog ==
    /\ UNCHANGED syncVars
    /\ timers # <<>>
    /\ Head(timers).kind = "log"
    /\ timers' = Tail(timers)
    /\ verificationData' =
          [verificationData EXCEPT !.answerTimestamps =
              push(@, answerLogWithoutLocation(Head(timers)))]
    /\ lastOp' = [op |-> "logAnswer", outcome |-> "returned", sample |-> "failed"]
    /\ UNCHANGED <<currentSurvey, locationWatcher, isTracking, ticks, screenVars, historyVars,
                   storageVars>>

\* The recorder called through its interface, with location samples that may fail
SampleFailNext ==
    \/ \E surveyId \in SessionSurveys : StartSurveyCall(surveyId)
    \/ \E questionId \in {1, 4}, answer \in LoggedAnswers : LogAnswerCall(questionId, answer)
    \/ CompleteSurveyCall
    \/ Tick
    \/ ResolveStart
    \/ ResolveLog
    \/ RejectLog
    \/ ResolveTick
    \/ \E o \in InitOutcomes, ok \in BOOLEAN : ResolveComplete(o, ok)

SampleFailSpec == Init /\ [][SampleFailNext]_vars

\* the location sample of the logAnswer call that resumes in this step has failed
LogSampleFailed == lastOp'.op = "logAnswer" /\ "sample" \in DOMAIN lastOp'

\* C33: when the location sample of a logAnswer call fails, the call appends
\* exactly one entry, with the call's questionId, answerType and answerLength
\* (those of the entry logged when the sample succeeds) and no location, changes
\* nothing else of the record, and returns without an error.
T_C33_LoggedWithoutLocation ==
    [][LogSampleFailed =>
          /\ lastOp'.outcome = "returned"
          /\ Len(verificationData'.answerTimestamps) = Len(verificationData.answerTimestamps) + 1
          /\ SubSeq(verificationData'.answerTimestamps, 1, Len(verificationData.answerTimestamps))
                = verificationData.answerTimestamps
          /\ LET entry == verificationData'.answerTimestamps[Len(verificationData'.answerTimestamps)]
                 call == Head(timers)
             IN  /\ entry.location = "null"
                 /\ entry.questionId = call.questionId
                 /\ entry.answerType = call.answerType
                 /\ entry.answerLength = call.answerLength
                 /\ [entry EXCEPT !.location = "loc"] = answerLogWithLocation(call)
          /\ verificationData' = [verificationData EXCEPT
                                     !.answerTimestamps = verificationData'.answerTimestamps]
          /\ currentSurvey' = currentSurvey]_vars

\* an audio answer was logged during an active survey after its sample failed,
\* behind an entry that has its location
W_C33_SecondLoggedWithoutLocation ==
    /\ lastOp.op = "logAnswer"
    /\ lastOp.outcome = "returned"
    /\ "sample" \in DOMAIN lastOp
    /\ currentSurvey # 0
    /\ Len(verificationData.answerTimestamps) = 2
    /\ verificationData.answerTimestamps[1].location = "loc"
    /\ verificationData.answerTimestamps[2].location = "null"
    /\ verificationData.answerTimestamps[2].answerType = "audio"
    /\ verificationData.answerTimestamps[2].answerLength = BlobSize

-----------------------------------------------------------------------------
(* C34 *)
(* completeSurvey returns { ...this.verificationData, completedAt, version }:   *)
(* the spread copies the fields of verificationData, so the returned record's  *)
(* answerTimestamps and locationHistory are the very arrays verificationData   *)
(* holds, and a push on them after the return shows in the returned record.    *)
(* verificationData is that same object until startSurvey assigns a new one,   *)
(* which has no verificationHash.                                              *)

\* completeSurvey has returned a record spread from the present verificationData
Finalized == verificationData.verificationHash # "undefined"

\* the arrays the returned record shares with verificationData
SharedArrays(data) ==
    [answerTimestamps |-> data.answerTimestamps, locationHistory |-> data.locationHistory]

\* completeSurvey returns in this step
CompleteReturns == lastOp'.op = "completeSurvey"

\* at its return the record's hash is the one of its own fields and counts
HashOfOwnCounts(data) == data.verificationHash = generateVerificationHash(data)

\* C34, as stated: the record completeSurvey returns carries the hash of its own
\* answer count and location count, and no logAnswer or sampler tick resuming
\* after the return adds an entry to the arrays of the returned record.
CX_C34_ReturnedRecordStable ==
    [][/\ CompleteReturns => HashOfOwnCounts(verificationData')
       /\ Finalized /\ Finalized' /\ ~CompleteReturns =>
             SharedArrays(verificationData') = SharedArrays(verificationData)]_vars

\* What does hold: at the moment completeSurvey returns, the hash of the record
\* is the hash of its fields with the lengths of its two arrays.
ConsistentAtReturn ==
    [][CompleteReturns =>
          /\ Finalized'
          /\ HashOfOwnCounts(verificationData')
          /\ SharedArrays(verificationData') = SharedArrays(verificationData)]_vars

\* a logAnswer called while completeSurvey was awaiting its sample has resumed
\* after the return and pushed its entry
LoggedIntoReturnedRecord ==
    /\ lastOp.op = "logAnswer"
    /\ Finalized
    /\ currentSurvey = 0
    /\ Len(verificationData.answerTimestamps) = 1
    /\ ~HashOfOwnCounts(verificationData)

-----------------------------------------------------------------------------
(* C35 *)
(* Every simulateGetLocation timer has the same delay, so the pending calls    *)
(* resume in the order they were made: a call that resumes while a startSurvey *)
(* is pending behind it was made during the session before that startSurvey.   *)

\* the call that resumes in this step was made before a startSurvey still pending
ResumesFromEarlierSession ==
    /\ timers # <<>>
    /\ timers' = Tail(timers)
    /\ Head(timers).kind \in {"log", "tick", "complete"}
    /\ \E i \in 2..Len(timers) : timers[i].kind = "start"

\* C35: a logAnswer, sampler tick or completeSurvey of an earlier session that
\* resumes after a later startSurvey leaves the record of the later session as
\* it is and leaves that session active.
CX_C35_SessionsIsolated ==
    [][ResumesFromEarlierSession =>
          /\ verificationData' = verificationData
          /\ currentSurvey' = currentSurvey]_vars

\* What does hold: startSurvey itself installs a fresh record and makes its
\* survey the current one, whatever is pending.
StartInstallsFreshRecord ==
    [][lastOp'.op = "startSurveyCall" =>
          /\ currentSurvey' = lastOp'.surveyId
          /\ verificationData' = FreshData(lastOp'.surveyId)]_vars

\* a completeSurvey of the session before has ended the session started after
\* it and written its hash into the new record, while that startSurvey is
\* still awaiting its location
LaterSessionEndedByEarlierComplete ==
    /\ lastOp.op = "completeSurvey"
    /\ currentSurvey = 0
    /\ Finalized
    /\ verificationData.startLocation = "null"
    /\ PendingKinds({"start"}) # {}

-----------------------------------------------------------------------------
(* C36 *)

\* C36, as stated: when a run returns, every packet it reports with a success
\* entry is stored with syncStatus synced.
CX_C36_ReportedSyncedIsSynced ==
    SyncReturnedSome =>
        \A i \in Successes(lastOp.result.results) :
            StatusOf(lastOp.result.results[i].surveyId) = {"synced"}

\* a step of caller c's run that enters a success for a packet
ReportsSuccess(c) ==
    /\ InLoop(c)
    /\ lastOp'.op = "syncAll"
    /\ lastOp'.caller = c
    /\ Len(ResultsAfter(c)) = Len(run[c].results) + 1
    /\ ResultsAfter(c)[Len(ResultsAfter(c))].success

\* What does hold: the step that enters a success for a packet either leaves the
\* packet of that surveyId synced in the store, or has written nothing (the
\* write was rejected, or no packet of that surveyId was found).
SyncedOrNothingWritten ==
    [][\A c \in Callers, surveyId \in SurveyIds :
          (ReportsSuccess(c) /\ surveyId = run[c].pendingPackets[run[c].i].surveyId) =>
              \/ {p.syncStatus : p \in {q \in StoredPackets' : q.surveyId = surveyId}} = {"synced"}
              \/ UNCHANGED <<surveyPackets, localStorage>>]_vars

\* a run has returned success for its only packet, which is still pending in
\* the store
ReportedSyncedStillPending ==
    /\ SyncReturnedSome
    /\ lastOp.result.success
    /\ lastOp.result.synced = 1
    /\ lastOp.result.total = 1
    /\ StatusOf(lastOp.result.results[1].surveyId) = {"pending"}
    /\ Contents(lastOp.read[1]) \in {Contents(p) : p \in StoredPackets}

-----------------------------------------------------------------------------
(* C37 *)

\* the packet whose upload caller c's run has awaited last
Uploading(c) == run[c].pendingPackets[run[c].i]

\* this step is one of caller c's run in its loop
LoopStepOf(c) == InLoop(c) /\ lastOp'.op = "syncAll" /\ lastOp'.caller = c

\* the packets that are stored as synced after this step and were not before
NewlySynced == {p \in StoredPackets' : p.syncStatus = "synced" /\ p \notin StoredPackets}

\* the pending packets this step takes out of the store
PendingGone == {p \in PendingOf(StoredPackets) : p \notin StoredPackets'}

\* C37, as stated: a packet becomes synced only with the contents a run has
\* uploaded, and contents saved while a run is in flight stay stored and pending
\* until they are saved over, cleared, or uploaded and marked by a run themselves.
CX_C37_SyncedOnlyIfUploaded ==
    [][/\ \A p \in NewlySynced :
             \E c \in Callers : LoopStepOf(c) /\ Contents(p) = Contents(Uploading(c))
       /\ \A p \in PendingGone :
             \/ lastOp'.op \in {"save", "clearAll"}
             \/ \E c \in Callers : LoopStepOf(c) /\ Contents(p) = Contents(Uploading(c))]_vars

\* What does hold: every packet that becomes synced is marked by a run, under
\* the surveyId of the packet the run uploaded, with the contents the store
\* held under that surveyId when markPacketAsSynced read it.
MarkedUnderUploadedId ==
    [][\A p \in NewlySynced :
          \E c \in Callers :
             /\ LoopStepOf(c)
             /\ p.surveyId = Uploading(c).surveyId
             /\ Contents(p) \in {Contents(q) : q \in PacketsOf(p.surveyId) \cup run[c].got}]_vars

\* a run has returned success for the packet it read, and the store holds as
\* synced other contents, saved meanwhile, that no run has uploaded
SyncedButNeverUploaded ==
    /\ SyncReturnedSome
    /\ lastOp.result.total = 1
    /\ lastOp.result.success
    /\ \E p \in PacketsOf(lastOp.read[1].surveyId) :
          /\ p.syncStatus = "synced"
          /\ Contents(p) # Contents(lastOp.read[1])

-----------------------------------------------------------------------------
(* C38 *)

\* the required questions all have an answer in these answers
RequiredAnswered(given) ==
    \A i \in 1..Len(questions) : questions[i].required => Present(given[questions[i].id])

\* the required questions before the one shown (at the 0-based index) have an answer
RequiredAnsweredBelow(index, given) ==
    \A i \in 1..index : questions[i].required => Present(given[questions[i].id])

\* handleComplete resumes in this step with the record and hands its packet on
PacketAssembled == lastOp'.op = "completeSurvey" /\ lastOp'.origin = "screen"

\* C38: in every state of the survey screen every required question before the
\* current one has a non-empty answer; the packet handleComplete assembles, and
\* the packet stored from it, has a non-empty answer for every required question.
T_C38_RequiredAnswersInPacket ==
    [][/\ RequiredAnsweredBelow(currentQuestionIndex', answers')
       /\ PacketAssembled =>
             /\ RequiredAnswered(Head(timers).answers)
             /\ lastOp'.saved = "ok" =>
                   \A p \in {q \in StoredPackets' : q.surveyId = Head(timers).surveyId} :
                       RequiredAnswered(p.answers)]_vars

\* a session has been completed and saved with the four required questions
\* answered and the optional ones left out
W_C38_RequiredOnlySaved ==
    /\ SessionSaved
    /\ \E p \in PacketsOf(lastOp.surveyId) :
          /\ RequiredAnswered(p.answers)
          /\ p.answers[4] = "undefined"
          /\ p.answers[5] = "undefined"

\* the surveyor went back, emptied the answer of the second question, went back
\* once more and has come forward to it again: it is the current question
CameBackToEmptied ==
    /\ lastOp.op = "handleNext"
    /\ currentQuestionIndex = 1
    /\ answers[2] = ""

=============================================================================
